---- MODULE Spec2Model ----
(***************************************************************************)
(* Loki: the per-guild background workflows (meme voting cycle, guild      *)
(* workflow supervisor) and the shared, lock-guarded configuration store.  *)
(*                                                                         *)
(* Time is counted in whole days (next_reset = last_reset + 7 days, the    *)
(* reminder 2 days before it).  The 300-second retry sleeps are shorter    *)
(* than one unit: they end at any moment after they start.                 *)
(* A message id is the message's position in the platform's log (ids grow  *)
(* with posting time, as snowflakes do).                                   *)
(***************************************************************************)
EXTENDS Integers, Sequences, FiniteSets, TLC

\* ------------------------------------------------------------------ bounds
MaxTime == 7
\* messages posted after the process has started
MaxMsgs == 3
MaxVotes == 1
MaxPending == 1
MaxList == 4
MaxTotal == 2
\* guild_create events delivered to the process
MaxEvents == 3
\* length of the log when the process starts / messages posted during catch-up
MaxDown == 4
MaxLive == 1
\* GetMessages::limit(100), scaled down so that several pages are needed.
PageLimit == 2

\* The lottery's calendar: a day of TicksPerDay clock ticks, twelve months of
\* DaysPerMonth days each.
TicksPerDay == 2
DaysPerMonth == 2
\* DEFAULT_REFRESH_INTERVAL (1_800, 432_000) seconds, scaled to ticks: the
\* minimum is longer than one tick and the maximum shorter than nine months.
DefaultMin == 2
DefaultMax == 5
\* entries one user may be given / add and remove commands past their check at once
MaxNicks == 2
MaxCmds == 2

\* ------------------------------------------------------- program constants
ResetDays == 7
PingDays == 2
\* now.month() == 4 && now.day() == 1
April == 4

Bot == "bot"
Users == {"u1", "u2"}
Channels == {1}
Guilds == {1, 2}
Kinds == {"memes", "thread-reviver", "nickname-lottery", "scoreboard"}
CuChannels == {1, 2}

VARIABLES
    now,            \* wall clock (Utc::now), in days
    msgs,           \* the platform's message log: id -> [chan, author, bot (the bot's reaction is on it)]
    inbox,          \* message events delivered to the process, handler not yet run
    memes,          \* Guild::memes of the modelled guild: <<>> (None) or <<record>>
    disk,           \* the copy of Guild::memes written by the last Config::save
    wlock,          \* holder of ctx.data's write guard, or "free"
    rlock,          \* holders of read guards on ctx.data
    mh,             \* MemesVoting::message awaiting its react call: <<>> or <<message id>>
    cmd,            \* the memes command in progress: [pc, chan, msg]
    pc,             \* position of the memes task (guild_init/memes_process_iter/process_memes)
    loc,            \* the memes task's local variables
    cycle,          \* history: number of successful bot reactions since the last reset/new record
    evals,          \* history: [elig, once, twice, pings]: contest entries, the Resets that evaluated them, reminders tried since the last Reset
    started,        \* Guild::threads_started, per guild
    stored,         \* the threads_started field of each guild in the configuration file:
                    \*   "none" (no record of the guild), "absent" (a record without the
                    \*   field), "true", "false"
    features,       \* workflow kinds compiled in (cargo features)
    gc,             \* guild_create handlers in progress: event -> [pc, guild, started]
    tasks,          \* spawned workflow tasks: <<guild, kind>> -> how many
    waiters,        \* requests queued on ctx.data's lock, oldest first: [who, guard, kind]
    others,         \* positions of the scoreboard task, a text-response handler, a
                    \*   command and a caller of notify_subscribers
    vs,             \* victor selection on its own: [pc, list, sorted, victor]
    cu,             \* get_messages run twice: [pc, run, chan, anchor, list, len0, seen,
                    \*   first, seen1, second]
    nld,            \* NicknameLotteryGuildData of the modelled guild
    lot,            \* the nickname lottery task (NicknameLottery::guild_init): position and locals
    members,        \* the platform's members of the guild: user -> <<>> (left) or <<display name>>
    reg,            \* history: [entries, emptied]: the texts each user was given and not taken
                    \*   away, in order; whether a removal has emptied the user's list
    ncmd            \* `user_nicknames add/remove` commands between their check and their write

vars == <<now, msgs, inbox, memes, disk, wlock, rlock, mh, cmd, pc, loc, cycle, evals,
          started, stored, features, gc, tasks, waiters, others, vs, cu, nld, lot, members,
          reg, ncmd>>

memesVars == <<now, msgs, inbox, memes, disk, wlock, rlock, mh, cmd, pc, loc, cycle, evals>>
supVars == <<started, stored, features, gc, tasks, waiters, others>>
\* what an action of the meme workflow leaves alone
lotVars == <<nld, lot, members, reg, ncmd>>
notMemes == <<started, stored, features, gc, tasks, waiters, others, vs, cu, lotVars>>

\* ------------------------------------------------------------ small helpers
None == <<>>
Some(x) == <<x>>
IsSome(o) == o # <<>>
Unwrap(o) == o[1]

Max(a, b) == IF a >= b THEN a ELSE b

Reverse(s) == [i \in 1..Len(s) |-> s[Len(s) + 1 - i]]

RECURSIVE SetToAscSeq(_)
SetToAscSeq(S) ==
    IF S = {} THEN <<>>
    ELSE LET m == CHOOSE x \in S : \A y \in S : x <= y
         IN <<m>> \o SetToAscSeq(S \ {m})

Take(s, n) == IF Len(s) <= n THEN s ELSE SubSeq(s, 1, n)

\* Sum of all reaction counts of a message (reactions.iter().map(|m| m.count).sum()):
\* the members' reactions at the time of the fetch, and the bot's own if it was
\* there at that time.
Total_of_members(m, votes) == votes
Total(m, votes) == votes + (IF m.bot THEN 1 ELSE 0)

\* ------------------------------------------------------------------- Memes
Memes_new(channel, initial_message, t) ==
    [channel |-> channel, last_reset |-> t, initial_message |-> initial_message,
     times_won |-> [u \in Users |-> 0], reacted |-> FALSE]

\* (variant: a reset date fixed when the record is made, never recomputed)
next_reset_fixed(m) == ResetDays

next_reset(m) == m.last_reset + ResetDays

\* (variant: a reset that leaves the reacted flag as it was)
Memes_reset_keeps_flag(m, time, initial_message) ==
    [m EXCEPT !.last_reset = time, !.initial_message = initial_message]

Memes_reset(m, time, initial_message) ==
    [m EXCEPT !.last_reset = time, !.reacted = FALSE, !.initial_message = initial_message]

has_reacted_never(m) == FALSE
has_reacted(m) == m.reacted

reacted(m) == [m EXCEPT !.reacted = TRUE]

\* (variant: a victory registered for every user)
add_victory_all(m, uid) == [m EXCEPT !.times_won = [u \in Users |-> @[u] + 1]]

add_victory(m, uid) == [m EXCEPT !.times_won[uid] = @ + 1]

set_memes_channel(channel, t) ==
    IF IsSome(channel) THEN Some(Memes_new(Unwrap(channel)[1], Unwrap(channel)[2], t))
    ELSE None

\* ------------------------------------------------------------------- Guild
\* Guild::threads_started / Guild::set_threads_started, on the flags of all guilds.
threads_started(flags, g) == flags[g]

\* (variant: the flag is left as it was)
set_threads_started_noop(flags, g) == flags

set_threads_started(flags, g) == [flags EXCEPT ![g] = TRUE]

\* #[serde(skip)] on Guild::threads_started: Serialize leaves the field out,
\* Deserialize fills it with bool::default().  serde_keep is the field without
\* the attribute.
serde_keep(v) == IF v THEN "true" ELSE "false"
serde_skip(v) == "absent"
serde_default(f) == f = "true"

\* Config::guild_mut inserts Guild::default() for a guild that has no record;
\* here a guild has a record once guild_create has seen it or the file had one.
HasRecord(flags, file, g) == flags[g] \/ file[g] # "none"

\* Config::save, the threads_started field of every guild: "none" for a guild
\* without a record, which has no table in the file.
save(flags, file) ==
    [g \in Guilds |-> IF HasRecord(flags, file, g) THEN serde_skip(flags[g]) ELSE "none"]

\* Config::load, the flag of every guild.
load(file) == [g \in Guilds |-> serde_default(file[g])]

\* ------------------------------------------------------------ the data lock
CanRead == wlock = "free"
CanWrite == wlock = "free" /\ rlock = {}

\* ------------------------------------------------- platform: message listing
\* GET channel messages with after=<id>, limit=<n>: the n oldest messages of the
\* channel newer than <id>, returned most recent first.
MessagesAfter(log, ch, after, limit) ==
    LET ids == {i \in 1..Len(log) : log[i].chan = ch /\ i > after}
    IN Reverse(Take(SetToAscSeq(ids), limit))

\* (variant: the page is appended as it was returned, most recent first)
get_messages_page_as_returned(log, ch, list) ==
    LET messages == MessagesAfter(log, ch, list[Len(list)], PageLimit)
    IN [finished |-> messages = <<>>, list |-> list \o messages]

\* One turn of the loop of get_messages: fetch the page after the last message
\* of the list, reverse it, append it.
get_messages_page(log, ch, list) ==
    LET messages == Reverse(MessagesAfter(log, ch, list[Len(list)], PageLimit))
    IN [finished |-> messages = <<>>, list |-> list \o messages]

RECURSIVE get_messages_loop(_, _, _)
get_messages_loop(log, ch, list) ==
    LET r == get_messages_page(log, ch, list)
    IN IF r.finished THEN r.list ELSE get_messages_loop(log, ch, r.list)

\* message_list.retain(|m| !m.is_own(..)), on a list of ids.
RetainNotOwn_nothing(log, list) == list
RetainNotOwn(log, list) == SelectSeq(list, LAMBDA i : log[i].author # Bot)

\* channel.message(initial_message) succeeds when the message is in the channel.
AnchorFetchable(log, ch, anchor) == anchor \in 1..Len(log) /\ log[anchor].chan = ch

\* The network part of get_messages, given the channel and anchor it read:
\* the ids of the messages it returns.
get_messages_ids(log, ch, anchor) ==
    RetainNotOwn(log, get_messages_loop(log, ch, <<anchor>>))

\* The Message values returned: a snapshot of author and reactions at fetch
\* time.  Whether the bot's reaction is on a message is known from the log; how
\* many reactions the members had given by then is an input, and it is drawn
\* where the counts are first read (Counted, in process_memes).
Snapshot(log, ids) ==
    [k \in 1..Len(ids) |-> [id |-> ids[k], author |-> log[ids[k]].author,
                            bot |-> log[ids[k]].bot]]

\* The list with each message's reaction total; votes[k] is what the members
\* had given the k-th message when it was fetched.
Counted(list, votes) ==
    [k \in 1..Len(list) |-> [id |-> list[k].id, author |-> list[k].author,
                             total |-> Total(list[k], votes[k])]]

\* ------------------------------------------------- sorting and the victor
Perms(n) == {p \in [1..n -> 1..n] : \A a, b \in 1..n : p[a] = p[b] => a = b}

\* (variant: the comparator the other way round, ascending totals)
SortedAsc(s) == \A k \in 1..(Len(s) - 1) : s[k].total <= s[k + 1].total

\* The comparator of process_memes: b.total.cmp(a.total), i.e. descending totals.
SortedDesc(s) == \A k \in 1..(Len(s) - 1) : s[k].total >= s[k + 1].total

\* slice::sort_unstable_by: the list reordered to satisfy the comparator; the
\* order of elements that compare equal is not specified, so every such
\* reordering is a possible result.
sort_unstable_by(list) ==
    {s \in {[k \in 1..Len(list) |-> list[p[k]]] : p \in Perms(Len(list))} : SortedDesc(s)}

\* ----------------------------------------------------------- the platform
\* The log starts with the anchor message of the persisted record.
LogFull == Len(msgs) >= MaxMsgs + 1

BotMsg(ch) == [chan |-> ch, author |-> Bot, bot |-> FALSE]

\* A member posts a message; the gateway delivers its event to the process.  (The events
\* of the bot's own messages are left out: the handler returns on is_own.)
\* Members are interchangeable: the first of them to post is called u1.
MsgPost ==
    /\ ~LogFull
    /\ Cardinality(inbox) < MaxPending
    /\ \E ch \in Channels, u \in Users :
         /\ (u # "u1" => \E i \in 1..Len(msgs) : msgs[i].author = "u1")
         /\ msgs' = Append(msgs, [chan |-> ch, author |-> u, bot |-> FALSE])
         /\ evals' = IF IsSome(memes) /\ Unwrap(memes).channel = ch
                     THEN [evals EXCEPT !.elig = @ \cup {Len(msgs) + 1}]
                     ELSE evals
    /\ inbox' = inbox \cup {Len(msgs) + 1}
    /\ UNCHANGED <<now, memes, disk, wlock, rlock, mh, cmd, pc, loc, cycle, notMemes>>

\* A day passes.  The steps of the task between two sleeps, a message handler
\* and a command each take less than a day, and a sleep ends when its deadline is
\* reached (tokio timers are prompt): days pass while the task sleeps before its
\* deadline, or after it has died, and no handler or command is under way.
TaskSleeps ==
    \/ pc \in {"retry_sleep", "pm_edit_sleep", "panicked"}
    \/ pc = "ping_sleep" /\ now < loc.reset_time - PingDays
    \/ pc = "reset_sleep" /\ now < loc.reset_time

TimeMayPass == TaskSleeps /\ inbox = {} /\ mh = None /\ cmd.pc = "idle"

Tick ==
    /\ now < MaxTime
    /\ TimeMayPass
    /\ now' = now + 1
    /\ UNCHANGED <<msgs, inbox, memes, disk, wlock, rlock, mh, cmd, pc, loc, cycle, evals,
                   notMemes>>

\* ------------------------------------------------- MemesVoting::message
\* The handler takes the write guard and keeps it until it returns.  Without a
\* react call nothing is awaited under the guard, and the handler is one step.
MessageNoReact ==
    /\ CanWrite /\ mh = None
    /\ \E m \in inbox :
         /\ inbox' = inbox \ {m}
         /\ IF /\ IsSome(memes)
               /\ msgs[m].chan = Unwrap(memes).channel
               /\ msgs[m].author # Bot
            THEN disk' = memes      \* has_reacted(), or gen_bool(REACTION_CHANCE) = false
            ELSE disk' = disk
    /\ UNCHANGED <<now, msgs, memes, wlock, rlock, mh, cmd, pc, loc, cycle, evals, notMemes>>

\* !has_reacted() && gen_bool(REACTION_CHANCE): message.react is awaited with
\* the write guard held.
MessageReactCall ==
    /\ CanWrite /\ mh = None
    /\ IsSome(memes)
    /\ ~has_reacted(Unwrap(memes))
    /\ \E m \in inbox :
         /\ msgs[m].chan = Unwrap(memes).channel
         /\ msgs[m].author # Bot
         /\ mh' = Some(m)
    /\ wlock' = "message"
    /\ UNCHANGED <<now, msgs, inbox, memes, disk, rlock, cmd, pc, loc, cycle, evals, notMemes>>

\* The react call returns: on success memes.reacted(); then config.save() and
\* the guard is dropped.
MessageReactDone ==
    /\ mh # None /\ wlock = "message"
    /\ LET m == Unwrap(mh) IN
       \E ok \in BOOLEAN :
         /\ IF ok
            THEN /\ msgs' = [msgs EXCEPT ![m].bot = TRUE]
                 /\ memes' = Some(reacted(Unwrap(memes)))
                 /\ cycle' = IF msgs[m].bot THEN cycle ELSE cycle + 1
            ELSE UNCHANGED <<msgs, memes, cycle>>
         /\ disk' = memes'
         /\ inbox' = inbox \ {m}
    /\ mh' = None
    /\ wlock' = "free"
    /\ UNCHANGED <<now, rlock, cmd, pc, loc, evals, notMemes>>

\* ------------------------------------------------------- /memes commands
CmdIdle == [pc |-> "idle", chan |-> 0, msg |-> 0]
NoEvals == [elig |-> {}, once |-> {}, twice |-> {}, pings |-> 0]

\* set_channel, up to the "Setting up meme subsystem..." message being sent.
\* (A failing to_channel or send_message ends the command with no effect.)
SetChannelSend ==
    /\ cmd.pc = "idle"
    /\ ~LogFull
    /\ \E ch \in Channels :
         /\ msgs' = Append(msgs, BotMsg(ch))
         /\ cmd' = [pc |-> "set_apply", chan |-> ch, msg |-> Len(msgs) + 1]
    /\ UNCHANGED <<now, inbox, memes, disk, wlock, rlock, mh, pc, loc, cycle, evals, notMemes>>

\* set_channel, the write-guarded part: set_memes_channel(Some(..)), save.
\* The edit of the message that follows changes its text only.
SetChannelApply ==
    /\ cmd.pc = "set_apply"
    /\ CanWrite
    /\ memes' = set_memes_channel(Some(<<cmd.chan, cmd.msg>>), now)
    /\ disk' = memes'
    /\ cmd' = CmdIdle
    /\ cycle' = 0
    /\ evals' = NoEvals
    /\ UNCHANGED <<now, msgs, inbox, wlock, rlock, mh, pc, loc, notMemes>>

\* unset_channel, the write-guarded part: set_memes_channel(None), save.
UnsetChannel ==
    /\ cmd.pc = "idle"
    /\ CanWrite
    /\ memes' = set_memes_channel(None, now)
    /\ disk' = memes'
    /\ cmd' = IF IsSome(memes)
              THEN [pc |-> "unset_send", chan |-> Unwrap(memes).channel, msg |-> 0]
              ELSE CmdIdle
    /\ cycle' = 0
    /\ evals' = NoEvals
    /\ UNCHANGED <<now, msgs, inbox, wlock, rlock, mh, pc, loc, notMemes>>

\* unset_channel, the "Halt your memes!" message to the former channel.
UnsetChannelSend ==
    /\ cmd.pc = "unset_send"
    /\ \E ok \in BOOLEAN :
         IF ok /\ ~LogFull
         THEN msgs' = Append(msgs, BotMsg(cmd.chan))
         ELSE UNCHANGED msgs
    /\ cmd' = CmdIdle
    /\ UNCHANGED <<now, inbox, memes, disk, wlock, rlock, mh, pc, loc, cycle, evals, notMemes>>

\* -------------------------------------------- the memes task: guild_init
LocInit ==
    [reset_time |-> 0, time |-> 0, channel |-> 0, gm_chan |-> 0, gm_anchor |-> 0,
     list |-> <<>>, reacted |-> FALSE, initial_message |-> 0, i |-> 0,
     victor |-> <<>>, outcome |-> "none", err |-> "none", notified |-> 0,
     edited |-> FALSE, forced |-> 0]

ErrKinds == {"connectivity", "other"}

\* memes_process_iter after the reminder block: time_until_reset is computed
\* from the reset_time read at the top of the iteration; the task sleeps if it
\* is positive and then calls process_memes, whose first statement reads the clock.
AfterPingPc_reminds(l) == "ping_send"
AfterPingPc(l) == IF l.reset_time - now > 0 THEN "reset_sleep" ELSE "pm_gm_read"
AfterPingLoc(l) ==
    IF l.reset_time - now > 0
    THEN [LocInit EXCEPT !.reset_time = l.reset_time]
    ELSE [LocInit EXCEPT !.time = now]

\* memes_process_iter, top: read next_reset under a read guard; sleep until two
\* days before it if that lies ahead.
IterStart ==
    /\ pc = "iter_start"
    /\ CanRead
    /\ IF IsSome(memes)
       THEN LET l == [loc EXCEPT !.reset_time = next_reset(Unwrap(memes))] IN
            IF l.reset_time - PingDays - now > 0
            THEN pc' = "ping_sleep" /\ loc' = l
            ELSE pc' = AfterPingPc(l) /\ loc' = AfterPingLoc(l)
       ELSE pc' = "retry_sleep" /\ loc' = loc
    /\ UNCHANGED <<now, msgs, inbox, memes, disk, wlock, rlock, mh, cmd, cycle, evals, notMemes>>

\* The ping sleep ends; the record is looked up again under a read guard, and
\* to_channel is awaited with that guard held.
PingWake ==
    /\ pc = "ping_sleep"
    /\ now >= loc.reset_time - PingDays
    /\ CanRead
    /\ IF IsSome(memes)
       THEN /\ pc' = "ping_chan"
            /\ loc' = [loc EXCEPT !.channel = Unwrap(memes).channel]
            /\ rlock' = rlock \cup {"memes"}
       ELSE /\ pc' = AfterPingPc(loc)
            /\ loc' = AfterPingLoc(loc)
            /\ rlock' = rlock
    /\ UNCHANGED <<now, msgs, inbox, memes, disk, wlock, mh, cmd, cycle, evals, notMemes>>

\* drop_data_handle!(data) of a read guard: the holder leaves the readers.  The
\* second form keeps the guard, as a task that went on without the drop would.
drop_data_handle_kept(held, who) == held
drop_data_handle(held, who) == held \ {who}

\* to_channel(..).await.unwrap().guild().unwrap(): a failure panics the task
\* (the guard is dropped as the task unwinds).
PingChan ==
    /\ pc = "ping_chan"
    /\ \E ok \in BOOLEAN :
         IF ok THEN pc' = "ping_gm_read" ELSE pc' = "panicked"
    /\ rlock' = drop_data_handle(rlock, "memes")
    /\ UNCHANGED <<now, msgs, inbox, memes, disk, wlock, mh, cmd, loc, cycle, evals, notMemes>>

\* get_messages, the guarded read of channel and initial_message; with no
\* record the list is empty.
GmRead(l) ==
    IF IsSome(memes)
    THEN [l EXCEPT !.gm_chan = Unwrap(memes).channel,
                   !.gm_anchor = Unwrap(memes).initial_message]
    ELSE [l EXCEPT !.list = <<>>]

\* get_messages, the network part: the anchor, then the pages after it.
GmFetch(l) == Snapshot(msgs, get_messages_ids(msgs, l.gm_chan, l.gm_anchor))

\* Vec::is_empty of the list get_messages returned, the reminder's condition.
is_empty(list) == list = <<>>

Err(kind) == [LocInit EXCEPT !.err = kind]

PingGmRead ==
    /\ pc = "ping_gm_read"
    /\ CanRead
    /\ loc' = GmRead(loc)
    /\ pc' = IF IsSome(memes) THEN "ping_gm_fetch" ELSE "ping_send"
    /\ UNCHANGED <<now, msgs, inbox, memes, disk, wlock, rlock, mh, cmd, cycle, evals, notMemes>>

PingGmFetch ==
    /\ pc = "ping_gm_fetch"
    /\ \E ok \in BOOLEAN :
         IF ok /\ AnchorFetchable(msgs, loc.gm_chan, loc.gm_anchor)
         THEN IF is_empty(get_messages_ids(msgs, loc.gm_chan, loc.gm_anchor))
              THEN pc' = "ping_send" /\ loc' = loc
              ELSE pc' = AfterPingPc(loc) /\ loc' = AfterPingLoc(loc)
         ELSE pc' = "iter_err" /\ (\E kind \in ErrKinds : loc' = Err(kind))
    /\ UNCHANGED <<now, msgs, inbox, memes, disk, wlock, rlock, mh, cmd, cycle, evals, notMemes>>

\* The "No memes?" reminder; evals.pings counts the sends tried.
PingSend ==
    /\ pc = "ping_send"
    /\ \E ok \in BOOLEAN :
         IF ok /\ ~LogFull
         THEN /\ msgs' = Append(msgs, BotMsg(loc.channel))
              /\ pc' = AfterPingPc(loc)
              /\ loc' = AfterPingLoc(loc)
         ELSE /\ pc' = "iter_err"
              /\ (\E kind \in ErrKinds : loc' = Err(kind))
              /\ UNCHANGED msgs
    /\ evals' = [evals EXCEPT !.pings = @ + 1]
    /\ UNCHANGED <<now, inbox, memes, disk, wlock, rlock, mh, cmd, cycle, notMemes>>

\* The reset sleep ends and process_memes is called: time = Utc::now().
ResetWake ==
    /\ pc = "reset_sleep"
    /\ now >= loc.reset_time
    /\ pc' = "pm_gm_read"
    /\ loc' = [LocInit EXCEPT !.time = now]
    /\ UNCHANGED <<now, msgs, inbox, memes, disk, wlock, rlock, mh, cmd, cycle, evals, notMemes>>

\* ------------------------------------------------------- process_memes
PmGmRead ==
    /\ pc = "pm_gm_read"
    /\ CanRead
    /\ loc' = GmRead(loc)
    /\ pc' = IF IsSome(memes) THEN "pm_gm_fetch" ELSE "pm_lock"
    /\ UNCHANGED <<now, msgs, inbox, memes, disk, wlock, rlock, mh, cmd, cycle, evals, notMemes>>

PmGmFetch ==
    /\ pc = "pm_gm_fetch"
    /\ \E ok \in BOOLEAN :
         IF ok /\ AnchorFetchable(msgs, loc.gm_chan, loc.gm_anchor)
         THEN pc' = "pm_lock" /\ loc' = [loc EXCEPT !.list = GmFetch(loc)]
         ELSE pc' = "iter_err" /\ (\E kind \in ErrKinds : loc' = Err(kind))
    /\ UNCHANGED <<now, msgs, inbox, memes, disk, wlock, rlock, mh, cmd, cycle, evals, notMemes>>

\* The write guard is taken; with a record, to_channel is awaited under it.
PmLock ==
    /\ pc = "pm_lock"
    /\ CanWrite
    /\ IF IsSome(memes)
       THEN pc' = "pm_chan" /\ wlock' = "memes"
       ELSE pc' = "pm_save" /\ wlock' = wlock
    /\ UNCHANGED <<now, msgs, inbox, memes, disk, rlock, mh, cmd, loc, cycle, evals, notMemes>>

\* to_channel returns: on error `?` leaves process_memes; otherwise has_reacted()
\* is read and the guard dropped.
PmChan ==
    /\ pc = "pm_chan"
    /\ \E ok \in BOOLEAN :
         IF ok
         THEN /\ pc' = "pm_send"
              /\ loc' = [loc EXCEPT !.channel = Unwrap(memes).channel,
                                    !.reacted = has_reacted(Unwrap(memes))]
         ELSE /\ pc' = "iter_err"
              /\ (\E kind \in ErrKinds : loc' = Err(kind))
    /\ wlock' = "free"
    /\ UNCHANGED <<now, msgs, inbox, memes, disk, rlock, mh, cmd, cycle, evals, notMemes>>

\* The "Processing N results..." message; then, if !reacted and the list is not
\* empty, a random index is drawn.
PmSend ==
    /\ pc = "pm_send"
    /\ \E ok \in BOOLEAN :
         IF ok /\ ~LogFull
         THEN /\ msgs' = Append(msgs, BotMsg(loc.channel))
              /\ IF ~loc.reacted /\ loc.list # <<>>
                 THEN /\ pc' = "pm_react"
                      /\ \E i \in 1..Len(loc.list) :
                           loc' = [loc EXCEPT !.initial_message = Len(msgs) + 1, !.i = i]
                 ELSE /\ pc' = "pm_reset"
                      /\ loc' = [loc EXCEPT !.initial_message = Len(msgs) + 1]
         ELSE /\ pc' = "iter_err"
              /\ (\E kind \in ErrKinds : loc' = Err(kind))
              /\ UNCHANGED msgs
    /\ UNCHANGED <<now, inbox, memes, disk, wlock, rlock, mh, cmd, cycle, evals, notMemes>>

\* The forced reaction to the drawn entry; loc.forced keeps the id of the
\* message that received it.
PmReact ==
    /\ pc = "pm_react"
    /\ LET m == loc.list[loc.i].id IN
       \E ok \in BOOLEAN :
         IF ok
         THEN /\ msgs' = [msgs EXCEPT ![m].bot = TRUE]
              /\ cycle' = IF msgs[m].bot THEN cycle ELSE cycle + 1
              /\ pc' = "pm_set_reacted"
              /\ loc' = [loc EXCEPT !.forced = m]
         ELSE /\ pc' = "pm_react_notify"
              /\ UNCHANGED <<msgs, cycle, loc>>
    /\ UNCHANGED <<now, inbox, memes, disk, wlock, rlock, mh, cmd, evals, notMemes>>

\* notify_subscribers(Event::Error, ..) after a failed forced reaction.
PmReactNotify ==
    /\ pc = "pm_react_notify"
    /\ CanRead
    /\ pc' = "pm_reset"
    /\ UNCHANGED <<now, msgs, inbox, memes, disk, wlock, rlock, mh, cmd, loc, cycle, evals,
                   notMemes>>

\* After a successful forced reaction: memes_mut().unwrap().reacted(), save.
PmSetReacted ==
    /\ pc = "pm_set_reacted"
    /\ CanWrite
    /\ IF IsSome(memes)
       THEN /\ memes' = Some(reacted(Unwrap(memes)))
            /\ disk' = memes'
            /\ pc' = "pm_gm2_read"
       ELSE /\ pc' = "panicked"
            /\ UNCHANGED <<memes, disk>>
    /\ UNCHANGED <<now, msgs, inbox, wlock, rlock, mh, cmd, loc, cycle, evals, notMemes>>

\* ... and meme_list = get_messages() again.
PmGm2Read ==
    /\ pc = "pm_gm2_read"
    /\ CanRead
    /\ loc' = GmRead(loc)
    /\ pc' = IF IsSome(memes) THEN "pm_gm2_fetch" ELSE "pm_reset"
    /\ UNCHANGED <<now, msgs, inbox, memes, disk, wlock, rlock, mh, cmd, cycle, evals, notMemes>>

PmGm2Fetch ==
    /\ pc = "pm_gm2_fetch"
    /\ \E ok \in BOOLEAN :
         IF ok /\ AnchorFetchable(msgs, loc.gm_chan, loc.gm_anchor)
         THEN pc' = "pm_reset" /\ loc' = [loc EXCEPT !.list = GmFetch(loc)]
         ELSE pc' = "iter_err" /\ (\E kind \in ErrKinds : loc' = Err(kind))
    /\ UNCHANGED <<now, msgs, inbox, memes, disk, wlock, rlock, mh, cmd, cycle, evals, notMemes>>

ListIds(list) == {list[k].id : k \in 1..Len(list)}

\* memes_mut().unwrap().reset(time, initial_message.id); then the outcome is
\* chosen from the list: no entries, no votes, or a victor (first of the sorted
\* list) whose victory is registered under a further write guard.
PmReset ==
    /\ pc = "pm_reset"
    /\ CanWrite
    /\ IF IsSome(memes)
       THEN /\ memes' = Some(Memes_reset(Unwrap(memes), loc.time, loc.initial_message))
            /\ cycle' = 0
            /\ evals' = [evals EXCEPT !.once = @ \cup ListIds(loc.list),
                                      !.twice = @ \cup (evals.once \cap ListIds(loc.list)),
                                      !.pings = 0]
            /\ IF loc.list # <<>>
               THEN \E votes \in [1..Len(loc.list) -> 0..MaxVotes] :
                    LET meme_list == Counted(loc.list, votes) IN
                    \E s \in sort_unstable_by(meme_list) :
                      LET victor == s[1] IN
                      IF victor.total > 0
                      THEN /\ pc' = "pm_victory"
                           /\ loc' = [LocInit EXCEPT !.list = meme_list, !.victor = <<victor>>,
                                                     !.forced = loc.forced]
                      ELSE /\ pc' = "pm_edit"
                           /\ loc' = [LocInit EXCEPT !.list = meme_list, !.outcome = "no_votes"]
               ELSE pc' = "pm_edit" /\ loc' = [LocInit EXCEPT !.outcome = "no_entries"]
       ELSE /\ pc' = "panicked"
            /\ UNCHANGED <<memes, cycle, evals, loc>>
    /\ UNCHANGED <<now, msgs, inbox, disk, wlock, rlock, mh, cmd, notMemes>>

\* memes_mut().unwrap().add_victory(victor.author.id)
PmVictory ==
    /\ pc = "pm_victory"
    /\ CanWrite
    /\ IF IsSome(memes)
       THEN /\ memes' = Some(add_victory(Unwrap(memes), loc.victor[1].author))
            /\ pc' = "pm_edit"
            /\ loc' = [LocInit EXCEPT !.outcome = "victory"]
       ELSE /\ pc' = "panicked"
            /\ UNCHANGED <<memes, loc>>
    /\ UNCHANGED <<now, msgs, inbox, disk, wlock, rlock, mh, cmd, cycle, evals, notMemes>>

\* The loop editing the posted message to the outcome text: `break` when the
\* edit returned Ok, otherwise the 300-second sleep and another turn.
edit_loop_once(ok) == "pm_save"
edit_loop(ok) == IF ok THEN "pm_save" ELSE "pm_edit_sleep"

\* loc.edited: the edit returned Ok (the message shows the outcome).
PmEdit ==
    /\ pc = "pm_edit"
    /\ \E ok \in BOOLEAN :
         /\ pc' = edit_loop(ok)
         /\ loc' = [loc EXCEPT !.list = <<>>, !.edited = ok]
    /\ UNCHANGED <<now, msgs, inbox, memes, disk, wlock, rlock, mh, cmd, cycle, evals,
                   notMemes>>

PmEditWake ==
    /\ pc = "pm_edit_sleep"
    /\ pc' = "pm_edit"
    /\ UNCHANGED <<now, msgs, inbox, memes, disk, wlock, rlock, mh, cmd, loc, cycle, evals,
                   notMemes>>

\* The closing config.save() of process_memes; Ok(()) is returned and
\* guild_init sleeps 300 seconds.
PmSave ==
    /\ pc = "pm_save"
    /\ CanWrite
    /\ disk' = memes
    /\ pc' = "retry_sleep"
    /\ UNCHANGED <<now, msgs, inbox, memes, wlock, rlock, mh, cmd, loc, cycle, evals, notMemes>>

\* guild_init's test of the iteration's error: the pattern
\* Error::SerenityError(serenity::Error::Http(HttpError::Request(_))).
is_http_request_any(kind) == TRUE
is_http_request(kind) == kind = "connectivity"

\* guild_init: an Http Request error is only logged ...
ErrConnectivity ==
    /\ pc = "iter_err"
    /\ is_http_request(loc.err)
    /\ pc' = "retry_sleep"
    /\ UNCHANGED <<now, msgs, inbox, memes, disk, wlock, rlock, mh, cmd, loc, cycle, evals,
                   notMemes>>

\* ... any other error goes to notify_subscribers (which takes a read guard).
\* loc.notified counts the calls made for the iteration's error.
ErrNotify ==
    /\ pc = "iter_err"
    /\ ~is_http_request(loc.err)
    /\ CanRead
    /\ pc' = "retry_sleep"
    /\ loc' = [loc EXCEPT !.notified = @ + 1]
    /\ UNCHANGED <<now, msgs, inbox, memes, disk, wlock, rlock, mh, cmd, cycle, evals,
                   notMemes>>

\* The 300-second sleep of guild_init ends; the next iteration starts.
RetryWake ==
    /\ pc = "retry_sleep"
    /\ pc' = "iter_start"
    /\ loc' = LocInit
    /\ UNCHANGED <<now, msgs, inbox, memes, disk, wlock, rlock, mh, cmd, cycle, evals, notMemes>>

\* ------------------------------------------- the nickname lottery: its data
\* Text is a sequence of characters; "P" stands for STREAMING_PREFIX.
STREAMING_PREFIX == <<"P">>
starts_with(text, prefix) ==
    /\ Len(text) >= Len(prefix)
    /\ SubSeq(text, 1, Len(prefix)) = prefix

\* NicknameData: the entry's text (context and adder are not modelled).
NicknameData(text) == [nickname |-> text]
nickname(e) == e.nickname

\* user_specific_nicknames maps a user to None (no key) or Some(list).
NicknameLotteryGuildData_default ==
    [user_specific_nicknames |-> [u \in Users |-> None],
     channel |-> None,
     refresh_interval |-> None]

user_nicknames(d, user) == d.user_specific_nicknames[user]

\* The list replaced by the new entry alone.
add_user_nickname_replace(d, user, e) ==
    [d EXCEPT !.user_specific_nicknames[user] = Some(<<e>>)]

\* entry(user).or_default().push(nickname)
add_user_nickname(d, user, e) ==
    LET old == IF IsSome(user_nicknames(d, user)) THEN Unwrap(user_nicknames(d, user))
               ELSE <<>> IN
    [d EXCEPT !.user_specific_nicknames[user] = Some(Append(old, e))]

RemoveAt(list, n) == SubSeq(list, 1, n - 1) \o SubSeq(list, n + 1, Len(list))

\* The entry removed, the key kept whatever is left.
remove_user_nickname_keeps_key(d, user, n) ==
    IF n <= 0 THEN None
    ELSE IF ~IsSome(user_nicknames(d, user)) THEN Some(d)
    ELSE LET list == Unwrap(user_nicknames(d, user)) IN
         IF n > Len(list) THEN None
         ELSE Some([d EXCEPT !.user_specific_nicknames[user] = Some(RemoveAt(list, n))])

\* None: an assert! fails (n = 0, or n beyond the list of a user that has a
\* key).  A user without a key is left alone; a list that becomes empty is
\* removed together with its key.
remove_user_nickname(d, user, n) ==
    IF n <= 0 THEN None
    ELSE IF ~IsSome(user_nicknames(d, user)) THEN Some(d)
    ELSE LET list == Unwrap(user_nicknames(d, user)) IN
         IF n > Len(list) THEN None
         ELSE LET rest == RemoveAt(list, n) IN
              Some([d EXCEPT !.user_specific_nicknames[user] =
                                 IF rest = <<>> THEN None ELSE Some(rest)])

\* A text of any user's list.
get_nickname_of_any_user(d, user) ==
    LET all == UNION {{Some(nickname(Unwrap(user_nicknames(d, u))[i])) :
                         i \in 1..Len(Unwrap(user_nicknames(d, u)))} :
                      u \in {w \in Users : IsSome(user_nicknames(d, w))}} IN
    IF all = {} THEN {None} ELSE all

\* The values the call may return: choose() picks any element of the list.
get_nickname_for_user(d, user) ==
    IF ~IsSome(user_nicknames(d, user)) THEN {None}
    ELSE LET list == Unwrap(user_nicknames(d, user)) IN
         IF list = <<>> THEN {None}
         ELSE {Some(nickname(list[i])) : i \in 1..Len(list)}

\* keys().choose(): any key of the map, None when there is none.
get_random_user(d) ==
    LET keys == {u \in Users : IsSome(user_nicknames(d, u))} IN
    IF keys = {} THEN {None} ELSE {Some(u) : u \in keys}

refresh_interval_unset(d) == None
refresh_interval(d) == d.refresh_interval
set_refresh_interval(d, i) == [d EXCEPT !.refresh_interval = i]
channel(d) == d.channel

\* With the stream-indicator feature, a streaming member keeps the prefix.
with_streaming_prefix(stream_indicator, old_nick, new_nick) ==
    IF stream_indicator /\ starts_with(old_nick, STREAMING_PREFIX)
    THEN STREAMING_PREFIX \o new_nick
    ELSE new_nick

\* No name is ever taken for the current one.
skips_never(old_nick, new_nick) == FALSE

\* if old_nick == new_nick { continue; }
skips_nickname_change(old_nick, new_nick) == old_nick = new_nick

\* ------------------------------------- the nickname lottery: its wait time
DEFAULT_REFRESH_INTERVAL == <<DefaultMin, DefaultMax>>
\* Duration::from_secs(1_800) on April Fool's: the literal equals the default
\* minimum.
AprilFoolsWait == DefaultMin

MonthLen == DaysPerMonth * TicksPerDay
YearLen == 12 * MonthLen
year(t) == t \div YearLen
month(t) == ((t % YearLen) \div MonthLen) + 1
day(t) == ((t % MonthLen) \div TicksPerDay) + 1
with_ymd_and_hms(y, m, d) == y * YearLen + (m - 1) * MonthLen + (d - 1) * TicksPerDay

\* Uniform::from(low..high): the half-open range; None when the constructor
\* panics (low >= high).
Uniform_from(low, high) == IF low >= high THEN None ELSE Some(<<low, high>>)
\* between.sample(..): any value of the range.
sample(between) == between[1]..(between[2] - 1)

is_april_fools(t) == month(t) = April /\ day(t) = 1

\* The sample taken as it is.
time_to_sleep_sampled(t, s) == Some(s)

\* tts after the adjustments of the loop, for the clock reading t and the
\* sampled duration s; None when the task panics (to_std of a negative
\* duration).
time_to_sleep(t, s) ==
    IF is_april_fools(t) THEN Some(AprilFoolsWait)
    ELSE IF month(t) < April
         THEN IF month(t + s) >= April
              THEN LET d == with_ymd_and_hms(year(t), April, 1) - t IN
                   IF d < 0 THEN None ELSE Some(d)
              ELSE Some(s)
         ELSE Some(s)

\* --------------------------------------------------- idle values of the parts
LotNew ==
    [pc |-> "top", interval |-> DEFAULT_REFRESH_INTERVAL,
     between |-> Unwrap(Uniform_from(DefaultMin, DefaultMax)),
     now |-> 0, is_april_fools |-> FALSE, sample |-> 0, tts |-> 0,
     guard |-> FALSE, user |-> None, old_nick |-> <<>>, new_nick |-> <<>>,
     post_name_change |-> FALSE, stream_indicator |-> FALSE,
     same |-> FALSE, n_edits |-> 0, posts |-> 0, notes |-> 0, debug |-> FALSE]

\* The iteration ends (its end is reached, or `continue`): the read guard and
\* the locals of the iteration are dropped.
EndIter(l) ==
    [l EXCEPT !.pc = "top", !.guard = FALSE, !.is_april_fools = FALSE, !.user = None,
              !.old_nick = <<>>, !.new_nick = <<>>, !.post_name_change = FALSE]

\* The end of the loop body is reached: `if cfg!(debug_assertions) { break; }`.
\* lot.debug tells a build with debug assertions from one without.
LoopEnd(l) == IF l.debug THEN [EndIter(l) EXCEPT !.pc = "done"] ELSE EndIter(l)

RegNone == [entries |-> [u \in Users |-> <<>>], emptied |-> [u \in Users |-> FALSE]]

LotIdle ==
    /\ nld = NicknameLotteryGuildData_default
    /\ lot = LotNew
    /\ members = [u \in Users |-> None]
    /\ reg = RegNone
    /\ ncmd = {}

VsIdle == [pc |-> "idle", list |-> <<>>, sorted |-> <<>>, victor |-> <<>>]
CuIdle == [pc |-> "idle", run |-> 1, chan |-> 0, anchor |-> 0, list |-> <<>>, len0 |-> 0,
           seen |-> 0, first |-> <<>>, seen1 |-> 0, second |-> <<>>]

\* The process has started (Config::load) for a guild whose contest was
\* configured by set_channel before: the record is the one Memes::new made and
\* Config::save wrote, its anchor the message set_channel sent.  guild_create
\* has spawned the memes task.
MemesInit ==
    /\ now = 0
    /\ \E ch \in Channels :
         /\ msgs = <<BotMsg(ch)>>
         /\ memes = Some(Memes_new(ch, 1, 0))
    /\ disk = memes
    /\ inbox = {} /\ wlock = "free" /\ rlock = {} /\ mh = None /\ cmd = CmdIdle
    /\ pc = "iter_start" /\ loc = LocInit /\ cycle = 0 /\ evals = NoEvals

\* The same variables when another part is studied.
MemesIdle ==
    /\ now = 0 /\ msgs = <<>> /\ inbox = {} /\ memes = None /\ disk = None
    /\ wlock = "free" /\ rlock = {} /\ mh = None /\ cmd = CmdIdle
    /\ pc = "iter_start" /\ loc = LocInit /\ cycle = 0 /\ evals = NoEvals

\* None of the other users of the lock has begun.
LockUsers == {"scoreboard", "text_response", "command", "stream_indicator"}
OthersIdle == [t \in LockUsers |-> "start"]

SupIdle ==
    /\ started = [g \in Guilds |-> FALSE]
    /\ stored = [g \in Guilds |-> "none"]
    /\ waiters = <<>> /\ others = OthersIdle
    /\ features = Kinds
    /\ gc = <<>>
    /\ tasks = [t \in Guilds \X Kinds |-> 0]

\* ------------------------------------------- the meme workflow of one guild
Init == MemesInit /\ SupIdle /\ vs = VsIdle /\ cu = CuIdle /\ LotIdle

MemesTask ==
    \/ IterStart \/ PingWake \/ PingChan \/ PingGmRead \/ PingGmFetch \/ PingSend
    \/ ResetWake \/ PmGmRead \/ PmGmFetch \/ PmLock \/ PmChan \/ PmSend \/ PmReact
    \/ PmReactNotify \/ PmSetReacted \/ PmGm2Read \/ PmGm2Fetch \/ PmReset
    \/ PmVictory \/ PmEdit \/ PmEditWake \/ PmSave \/ ErrConnectivity \/ ErrNotify
    \/ RetryWake

Environment ==
    \/ Tick \/ MsgPost \/ MessageNoReact \/ MessageReactCall \/ MessageReactDone
    \/ SetChannelSend \/ SetChannelApply \/ UnsetChannel \/ UnsetChannelSend

Next == MemesTask \/ Environment

Spec == Init /\ [][Next]_vars

\* ============================================ the meme workflow: properties
\* A step of the memes task changes pc; no other step does.
EntersProcessMemes == pc # "pm_gm_read" /\ pc' = "pm_gm_read"
ResetApplied == pc = "pm_reset" /\ pc' \in {"pm_victory", "pm_edit"}
VictoryApplied == pc = "pm_victory" /\ pc' = "pm_edit"
TaskStep == pc' # pc

TimesWon(o) == Unwrap(o).times_won

RECURSIVE MaxTotalOf(_)
MaxTotalOf(list) ==
    IF list = <<>> THEN 0 ELSE Max(list[1].total, MaxTotalOf(Tail(list)))

\* C2: process_memes is entered only when the stored record's reset is due
\* (now >= last_reset + 7 days for the record as it is at that moment), also
\* when the channel was set again while the task slept.
C2_ResetOnlyWhenDue ==
    [][EntersProcessMemes =>
         (IsSome(memes') => now' >= next_reset(Unwrap(memes')))]_vars

\* C3: every non-bot message posted to the configured channel is evaluated by
\* exactly one Reset: once the anchor has moved past a message it has been in
\* the list of a Reset, and no message is in the lists of two Resets.
C3_EveryEntryEvaluatedOnce ==
    /\ evals.twice = {}
    /\ \A i \in evals.elig :
         (IsSome(memes) /\ i < Unwrap(memes).initial_message) => i \in evals.once

\* C5: between two consecutive Resets the bot adds at most one reaction of its own.
C5_AtMostOneBotReactionPerCycle == cycle <= 1

C7_VictoriesNeverDecrease ==
    [][(IsSome(memes) /\ IsSome(memes')) =>
         \A u \in Users : TimesWon(memes')[u] >= TimesWon(memes)[u]]_vars

C11_NoCallUnderWriteGuard == wlock = "free"

\* C12: whenever the write guard is free, the stored copy equals the record in
\* memory: every change was saved before its guard was dropped.
C12_SavedBeforeRelease == wlock = "free" => disk = memes

\* C20: in every reachable state of the record, next_reset is last_reset plus
\* seven days, whatever made the record what it is (creation, a bot reaction,
\* a victory, a reset); the stored copy agrees.
C20_NextResetDerived ==
    /\ IsSome(memes) => next_reset(Unwrap(memes)) = Unwrap(memes).last_reset + ResetDays
    /\ IsSome(disk) => next_reset(Unwrap(disk)) = Unwrap(disk).last_reset + ResetDays

\* A record that was reset at day 7 and has a victory: its next reset is day 14.
C20_Witness ==
    /\ IsSome(memes)
    /\ Unwrap(memes).last_reset = ResetDays
    /\ next_reset(Unwrap(memes)) = ResetDays + ResetDays
    /\ \E u \in Users : TimesWon(memes)[u] > 0

\* C10: the memes task never dies: it is never stopped by a panic.
C10_TaskNeverDies == pc # "panicked"

\* The memes task is inside process_memes, at one of the places where it takes
\* the write guard again after a gap without one.
AfterGap == pc \in {"pm_set_reacted", "pm_reset", "pm_victory"}

\* C36: the Reset tolerates the channel being unset while process_memes runs:
\* when process_memes takes the write guard again and finds no record, the
\* task does not panic.
C36_UnsetTolerated ==
    [][(AfterGap /\ ~IsSome(memes) /\ pc' # pc) => pc' # "panicked"]_vars

\* C21: an iteration that ends in an error is followed by the retry sleep and
\* then by the next iteration, whatever the error; on the way a connectivity
\* error (an Http Request error) is never passed to notify_subscribers, and any
\* other error is passed to it exactly once.
C21_ErrorEscalation ==
    /\ [](pc = "iter_err" => (loc.err \in ErrKinds /\ loc.notified = 0))
    /\ [](pc = "retry_sleep" => loc.notified = (IF loc.err = "other" THEN 1 ELSE 0))
    /\ [](pc \notin {"iter_err", "retry_sleep"} => (loc.err = "none" /\ loc.notified = 0))
    /\ [][(pc = "iter_err" /\ TaskStep) =>
            (pc' = "retry_sleep" /\ loc'.err = loc.err /\ msgs' = msgs /\ memes' = memes)]_vars
    /\ [][(pc = "retry_sleep" /\ TaskStep) => (pc' = "iter_start" /\ loc' = LocInit)]_vars

\* An iteration failed with an error that is no connectivity error; it was
\* passed on once and the task is in its retry sleep.
C21_Witness == pc = "retry_sleep" /\ loc.err = "other" /\ loc.notified = 1

InEditLoop == pc \in {"pm_edit", "pm_edit_sleep"}

\* The meme workflow where the sleep of the edit loop ends and edits succeed
\* in the end: an edit that can be tried again and again does succeed once.
SpecEdits ==
    /\ Init /\ [][Next]_vars
    /\ WF_vars(PmEditWake)
    /\ SF_vars(PmEdit /\ loc'.edited)

\* C22: once a Reset has posted its message and updated the record, the edit
\* that shows the outcome is tried until it succeeds: a failed edit is followed
\* by the sleep and the sleep by another edit, an edit can always be tried
\* again, the task leaves the loop only by an edit that succeeded (so it does
\* not start the next iteration before), and the record is not touched
\* meanwhile.  Where edits succeed in the end, the outcome is shown in the end.
C22_EditRetriedUntilShown ==
    /\ [](InEditLoop => (loc.outcome # "none" /\ ~loc.edited))
    /\ []((pc \in {"pm_save", "retry_sleep"} /\ loc.outcome # "none") => loc.edited)
    /\ [](pc = "pm_edit_sleep" => ENABLED PmEditWake)
    /\ [](pc = "pm_edit" => ENABLED (PmEdit /\ pc' = "pm_save"))
    /\ [][(pc = "pm_edit" /\ TaskStep) =>
            /\ pc' \in {"pm_save", "pm_edit_sleep"}
            /\ (pc' = "pm_save") = loc'.edited
            /\ loc'.outcome = loc.outcome]_vars
    /\ [][(pc = "pm_edit_sleep" /\ TaskStep) => (pc' = "pm_edit" /\ loc' = loc)]_vars
    /\ [][(InEditLoop /\ TaskStep) => memes' = memes]_vars
    /\ (InEditLoop ~> (pc = "pm_save" /\ loc.edited))

\* A victory was registered and the edit showing it has failed: the task
\* sleeps before its next attempt.
C22_Witness ==
    /\ pc = "pm_edit_sleep"
    /\ loc.outcome = "victory"
    /\ IsSome(memes)
    /\ \E u \in Users : TimesWon(memes)[u] > 0

\* Steps of MemesVoting::message: it starts a react call; it returns.
ReactAttempt == mh = None /\ mh' # None
HandlerReturns == inbox' # inbox /\ inbox' \subseteq inbox

\* C23: the message handler starts a react call only for a non-bot message of
\* the contest channel while the record's reacted flag is false; a handler step
\* changes the record only by setting that flag from false to true, and only
\* when its react call has returned Ok (the message then carries the bot's
\* reaction).  So a failed call, and a message handled while the flag is true,
\* leave the record as it was.
C23_IntakeReaction ==
    /\ [][ReactAttempt =>
            /\ IsSome(memes)
            /\ ~Unwrap(memes).reacted
            /\ msgs[Unwrap(mh')].chan = Unwrap(memes).channel
            /\ msgs[Unwrap(mh')].author # Bot
            /\ memes' = memes]_vars
    /\ [][(HandlerReturns /\ memes' # memes) =>
            /\ mh # None
            /\ IsSome(memes)
            /\ ~Unwrap(memes).reacted
            /\ memes' = Some([Unwrap(memes) EXCEPT !.reacted = TRUE])
            /\ msgs'[Unwrap(mh)].bot]_vars

\* On the first day, before any Reset, the handler has reacted to the first
\* entry and set the flag.
C23_Witness ==
    /\ now = 0
    /\ mh = None
    /\ IsSome(memes)
    /\ Unwrap(memes).reacted
    /\ Unwrap(memes).initial_message = 1
    /\ Len(msgs) >= 2
    /\ msgs[2].bot
    /\ cycle = 1

\* Steps of the reminder: the send is tried; it failed.
ReminderTried == pc = "ping_send" /\ TaskStep
ReminderFailed == ReminderTried /\ msgs' = msgs

\* C24: between two Resets the "No memes?" reminder is tried at most once (so
\* it is sent at most once, and a failed send is not repeated); the task comes
\* to the send only from the wake that ends the ping sleep, with the contest
\* configured at that wake, and only when the list it then fetched has no
\* entry; a failed send ends the iteration with an error, which leaves the
\* task alive for the retry sleep and the iterations that lead to the Reset.
C24_ReminderAtMostOnce ==
    /\ [](evals.pings <= 1)
    /\ [][(pc # "ping_chan" /\ pc' = "ping_chan") =>
            (pc = "ping_sleep" /\ now >= loc.reset_time - PingDays /\ IsSome(memes))]_vars
    /\ [][(pc # "ping_send" /\ pc' = "ping_send") =>
            \/ /\ pc = "ping_gm_fetch"
               /\ get_messages_ids(msgs, loc.gm_chan, loc.gm_anchor) = <<>>
            \/ pc = "ping_gm_read" /\ ~IsSome(memes)]_vars
    /\ [][(pc # "ping_gm_read" /\ pc' = "ping_gm_read") => pc = "ping_chan"]_vars
    /\ [][(pc # "ping_gm_fetch" /\ pc' = "ping_gm_fetch") => pc = "ping_gm_read"]_vars
    /\ [][ReminderTried => (msgs' # msgs) = (pc' # "iter_err")]_vars
    /\ [][ReminderFailed => (pc' = "iter_err" /\ memes' = memes)]_vars

\* C25: a wake from the ping sleep that finds no record goes on to the reset
\* sleep (or straight to process_memes) without sending anything, and the
\* iteration cannot come to the reminder any other way than from a wake that
\* found a record; a run of process_memes that finds no record when it takes
\* the write guard goes to its closing save having posted nothing, and neither
\* that step nor the save changes the record or the channel.
C25_UnsetMeansSilent ==
    /\ [][(pc = "ping_sleep" /\ TaskStep /\ ~IsSome(memes)) =>
            /\ pc' \in {"reset_sleep", "pm_gm_read"}
            /\ msgs' = msgs /\ memes' = memes /\ evals' = evals]_vars
    /\ [][(pc' = "ping_send" /\ TaskStep) => pc \in {"ping_gm_read", "ping_gm_fetch"}]_vars
    /\ [][(pc' \in {"ping_gm_read", "ping_gm_fetch"} /\ TaskStep) =>
            pc \in {"ping_chan", "ping_gm_read"}]_vars
    /\ [][(pc' = "ping_chan" /\ TaskStep) => (pc = "ping_sleep" /\ IsSome(memes))]_vars
    /\ [][(pc = "pm_lock" /\ TaskStep /\ ~IsSome(memes)) =>
            /\ pc' = "pm_save"
            /\ loc'.initial_message = 0 /\ loc'.outcome = "none"
            /\ msgs' = msgs /\ memes' = memes]_vars
    /\ [][(pc = "pm_save" /\ TaskStep) =>
            (pc' = "retry_sleep" /\ msgs' = msgs /\ memes' = memes /\ loc' = loc)]_vars
    /\ []((pc = "pm_save" /\ loc.outcome = "none") => loc.initial_message = 0)

\* The contest was unset before the Reset was due: process_memes found no
\* record and is at its closing save with nothing posted.
C25_Witness ==
    /\ pc = "pm_save"
    /\ ~IsSome(memes)
    /\ loc.outcome = "none"
    /\ loc.initial_message = 0
    /\ now >= ResetDays
    /\ Len(msgs) = 1

\* C26: process_memes comes to the forced reaction exactly when the flag it
\* read under its guard (loc.reacted) is false and the fetched list, which
\* holds non-bot messages only, is not empty; the reaction goes to an entry of
\* that list.  When the reaction succeeded the list is fetched again before
\* the totals are taken, so the entry that received it carries the bot's
\* reaction in the list the victor is chosen from, and its total counts it.
C26_ForcedReaction ==
    /\ [][(pc = "pm_chan" /\ pc' = "pm_send") =>
            (loc'.reacted = Unwrap(memes).reacted /\ loc'.list = loc.list)]_vars
    /\ [][(pc = "pm_send" /\ TaskStep /\ pc' # "iter_err") =>
            /\ (pc' = "pm_react") = (~loc.reacted /\ loc.list # <<>>)
            /\ pc' \in {"pm_react", "pm_reset"}
            /\ pc' = "pm_react" => loc'.i \in 1..Len(loc.list)]_vars
    /\ [][(pc' = "pm_react" /\ TaskStep) => pc = "pm_send"]_vars
    /\ [](pc \in {"pm_send", "pm_react"} =>
             \A k \in 1..Len(loc.list) : msgs[loc.list[k].id].author # Bot)
    /\ [][(pc = "pm_react" /\ TaskStep) =>
            /\ pc' \in {"pm_set_reacted", "pm_react_notify"}
            /\ pc' = "pm_set_reacted" =>
                  /\ loc'.forced = loc.list[loc.i].id
                  /\ msgs'[loc'.forced].bot
            /\ pc' = "pm_react_notify" => (loc'.forced = 0 /\ msgs' = msgs)]_vars
    /\ [](pc = "pm_reset" /\ loc.forced # 0 =>
             \A k \in 1..Len(loc.list) : loc.list[k].id = loc.forced => loc.list[k].bot)
    /\ [][(ResetApplied /\ loc.forced # 0) =>
            \A k \in 1..Len(loc.list) :
              loc.list[k].id = loc.forced =>
                (loc'.list[k].id = loc.forced /\ loc'.list[k].total >= 1)]_vars

\* Two entries with one member vote each; the forced reaction went to one of
\* them, whose total of two makes it the victor.
C26_Witness ==
    /\ pc = "pm_victory"
    /\ loc.forced # 0
    /\ Len(loc.list) = 2
    /\ loc.victor[1].id = loc.forced
    /\ loc.victor[1].total = MaxVotes + 1
    /\ \E k \in 1..2 : loc.list[k].id # loc.forced /\ loc.list[k].total = MaxVotes

\* ============================================ the guild workflow supervisor
\* A guild_create event arrives (on connect, on reconnect, when the bot joins a
\* guild); its handler runs concurrently with those of other events.
GuildCreateEvent ==
    /\ Len(gc) < MaxEvents
    /\ \E g \in Guilds :
         gc' = Append(gc, [pc |-> "acquire", guild |-> g, started |-> FALSE])
    /\ UNCHANGED <<started, stored, features, tasks, waiters, others, memesVars, vs, cu,
                   lotVars>>

\* The handler holds the write guard: it reads threads_started, sets it, and
\* drops the guard; nothing is awaited in between.
GuildCreateTestAndSet ==
    /\ CanWrite
    /\ \E e \in 1..Len(gc) :
         /\ gc[e].pc = "acquire"
         /\ gc' = [gc EXCEPT ![e].pc = "spawn",
                             ![e].started = threads_started(started, gc[e].guild)]
         /\ started' = set_threads_started(started, gc[e].guild)
    /\ UNCHANGED <<stored, features, tasks, waiters, others, memesVars, vs, cu, lotVars>>

\* if !started: one task is spawned for every workflow kind compiled in.
GuildCreateSpawn ==
    /\ \E e \in 1..Len(gc) :
         /\ gc[e].pc = "spawn"
         /\ gc' = [gc EXCEPT ![e].pc = "done"]
         /\ tasks' = IF ~gc[e].started
                     THEN [t \in Guilds \X Kinds |->
                             IF t[1] = gc[e].guild /\ t[2] \in features
                             THEN tasks[t] + 1 ELSE tasks[t]]
                     ELSE tasks
    /\ UNCHANGED <<started, stored, features, waiters, others, memesVars, vs, cu, lotVars>>

\* The process has loaded its configuration: threads_started is not stored
\* (serde(skip)), so it is false for every guild; any set of workflow kinds may
\* have been compiled in.
SupInit ==
    /\ MemesIdle
    /\ started = [g \in Guilds |-> FALSE]
    /\ stored = [g \in Guilds |-> "none"]
    /\ waiters = <<>> /\ others = OthersIdle
    /\ features \in SUBSET Kinds
    /\ gc = <<>>
    /\ tasks = [t \in Guilds \X Kinds |-> 0]
    /\ vs = VsIdle /\ cu = CuIdle /\ LotIdle

SupNext == GuildCreateEvent \/ GuildCreateTestAndSet \/ GuildCreateSpawn

SpecSup == SupInit /\ [][SupNext]_vars

\* Handlers of guild g that have passed the guarded section, and those among
\* them that read the flag unset.
Passed(g) == {e \in 1..Len(gc) : gc[e].guild = g /\ gc[e].pc # "acquire"}
Firsts(g) == {e \in Passed(g) : ~gc[e].started}

\* C1: for any number and interleaving of guild_create events of one guild,
\* exactly one handler (the first through the guarded section) finds the flag
\* unset, the flag is set from then on, and each (guild, kind) has exactly one
\* task once that handler has spawned (for the kinds compiled in), none before
\* and never a second one.
C1_SpawnedExactlyOnce ==
    \A g \in Guilds :
      /\ started[g] <=> Passed(g) # {}
      /\ Passed(g) # {} => Cardinality(Firsts(g)) = 1
      /\ \A k \in Kinds :
           tasks[<<g, k>>] =
               IF k \in features /\ \E e \in Firsts(g) : gc[e].pc = "done" THEN 1 ELSE 0

\* Three handlers of the same guild have finished; the memes and lottery tasks
\* of that guild exist once.
C1_Witness ==
    \E g \in Guilds :
      /\ Cardinality({e \in 1..Len(gc) : gc[e].guild = g /\ gc[e].pc = "done"}) = MaxEvents
      /\ tasks[<<g, "memes">>] = 1
      /\ tasks[<<g, "nickname-lottery">>] = 1

\* ================================================ victor selection on its own
\* Lists of fetched messages, in fetch order (ids ascending), with every
\* combination of reaction totals.
FetchedLists ==
    UNION {{[k \in 1..n |-> [id |-> k, author |-> "u1", total |-> t[k]]] :
              t \in [1..n -> 0..MaxTotal]} : n \in 1..MaxList}

VictorInit ==
    /\ MemesIdle /\ SupIdle /\ cu = CuIdle /\ LotIdle
    /\ \E list \in FetchedLists : vs = [VsIdle EXCEPT !.pc = "fetched", !.list = list]

\* meme_list.sort_unstable_by(..)
VsSort ==
    /\ vs.pc = "fetched"
    /\ \E s \in sort_unstable_by(vs.list) : vs' = [vs EXCEPT !.pc = "sorted", !.sorted = s]
    /\ UNCHANGED <<memesVars, supVars, cu, lotVars>>

\* let victor = meme_list.first().unwrap()
VsFirst ==
    /\ vs.pc = "sorted"
    /\ vs' = [vs EXCEPT !.pc = "done", !.victor = <<vs.sorted[1]>>]
    /\ UNCHANGED <<memesVars, supVars, cu, lotVars>>

VictorNext == VsSort \/ VsFirst

SpecVictor == VictorInit /\ [][VictorNext]_vars

\* The first message in fetch order whose total is the greatest of the list.
FirstMax(list) ==
    CHOOSE k \in 1..Len(list) :
      /\ list[k].total = MaxTotalOf(list)
      /\ \A j \in 1..(k - 1) : list[j].total < MaxTotalOf(list)

\* C4 (as stated): the victor is the first message in fetch order whose total
\* equals the greatest total.
C4_FirstMaxWins ==
    vs.pc = "done" => vs.victor[1].id = FirstMax(vs.list)

\* C4 (amended): the victor is a message of the list whose total equals the
\* greatest total; when only one message has that total it is the victor.
C4_VictorHasMaxTotal ==
    vs.pc = "done" =>
      /\ \E k \in 1..Len(vs.list) : vs.list[k] = vs.victor[1]
      /\ vs.victor[1].total = MaxTotalOf(vs.list)
      /\ Cardinality({k \in 1..Len(vs.list) : vs.list[k].total = MaxTotalOf(vs.list)}) = 1
           => vs.victor[1].id = FirstMax(vs.list)

\* Two messages share the greatest total, and the later one is the victor.
C4_Witness ==
    /\ vs.pc = "done"
    /\ vs.victor[1].total = MaxTotalOf(vs.list)
    /\ vs.victor[1].total > 0
    /\ vs.victor[1].id > FirstMax(vs.list)

\* ===================================================== catch-up on its own
\* The process starts with a stored record whose anchor is a message the bot
\* sent (set_channel's or a Reset's); the log holds whatever was posted before
\* and after it, in any channel, by members and by the bot, while the process
\* was down.
DownLogs ==
    UNION {[1..n -> [chan : CuChannels, author : {Bot, "u1"}, bot : {FALSE}]] :
             n \in 1..MaxDown}

CatchUpInit ==
    /\ now = 0 /\ inbox = {} /\ wlock = "free" /\ rlock = {} /\ mh = None /\ cmd = CmdIdle
    /\ pc = "iter_start" /\ loc = LocInit /\ cycle = 0 /\ evals = NoEvals
    /\ SupIdle /\ vs = VsIdle /\ LotIdle
    /\ msgs \in DownLogs
    /\ \E a \in 1..Len(msgs) :
         /\ msgs[a].author = Bot
         /\ memes = Some(Memes_new(msgs[a].chan, a, 0))
    /\ disk = memes
    /\ cu = [CuIdle EXCEPT !.pc = "start", !.len0 = Len(msgs)]

\* A message is posted while catch-up runs.
CuPost ==
    /\ cu.pc # "done"
    /\ Len(msgs) < cu.len0 + MaxLive
    /\ \E ch \in CuChannels, a \in {Bot, "u1"} :
         msgs' = Append(msgs, [chan |-> ch, author |-> a, bot |-> FALSE])
    /\ UNCHANGED <<now, inbox, memes, disk, wlock, rlock, mh, cmd, pc, loc, cycle, evals,
                   supVars, vs, cu, lotVars>>

\* get_messages: channel and initial_message are read under a read guard.
CuRead ==
    /\ cu.pc = "start"
    /\ CanRead
    /\ cu' = [cu EXCEPT !.pc = "anchor", !.chan = Unwrap(memes).channel,
                        !.anchor = Unwrap(memes).initial_message, !.list = <<>>]
    /\ UNCHANGED <<memesVars, supVars, vs, lotVars>>

\* message_list.push(channel.message(initial_message).await?)
CuAnchor ==
    /\ cu.pc = "anchor"
    /\ AnchorFetchable(msgs, cu.chan, cu.anchor)
    /\ cu' = [cu EXCEPT !.pc = "page", !.list = <<cu.anchor>>]
    /\ UNCHANGED <<memesVars, supVars, vs, lotVars>>

\* One turn of the loop.
CuPage ==
    /\ cu.pc = "page"
    /\ LET r == get_messages_page(msgs, cu.chan, cu.list) IN
       cu' = [cu EXCEPT !.list = r.list,
                        !.pc = IF r.finished THEN "retain" ELSE "page",
                        !.seen = IF r.finished THEN Len(msgs) ELSE @]
    /\ UNCHANGED <<memesVars, supVars, vs, lotVars>>

\* A request fails (`?`): the run ends with an error and is made again later.
CuFail ==
    /\ cu.pc \in {"anchor", "page"}
    /\ cu' = [cu EXCEPT !.pc = "start", !.list = <<>>]
    /\ UNCHANGED <<memesVars, supVars, vs, lotVars>>

\* message_list.retain(|m| !m.is_own(..)); Ok(message_list).  The first run is
\* followed by a second.
CuRetain ==
    /\ cu.pc = "retain"
    /\ LET result == RetainNotOwn(msgs, cu.list) IN
       IF cu.run = 1
       THEN cu' = [cu EXCEPT !.pc = "start", !.run = 2, !.first = result,
                             !.seen1 = cu.seen, !.list = <<>>]
       ELSE cu' = [cu EXCEPT !.pc = "done", !.second = result, !.list = <<>>]
    /\ UNCHANGED <<memesVars, supVars, vs, lotVars>>

CatchUpNext == CuPost \/ CuRead \/ CuAnchor \/ CuPage \/ CuFail \/ CuRetain

SpecCatchUp == CatchUpInit /\ [][CatchUpNext]_vars

\* The members' messages of the record's channel posted after the anchor, among
\* the first `upto` messages of the log, each once, oldest first.
EntriesUpTo(upto) ==
    LET m == Unwrap(memes) IN
    SetToAscSeq({i \in 1..upto : /\ i > m.initial_message
                                 /\ msgs[i].chan = m.channel
                                 /\ msgs[i].author # Bot})

QuietRun == cu.run = 2 /\ cu.seen1 = cu.len0
\* The messages of the channel after the anchor, as that run met them.
AfterAnchor == {i \in 1..cu.len0 : i > cu.anchor /\ msgs[i].chan = cu.chan}
ThePage == MessagesAfter(msgs, cu.chan, cu.list[Len(cu.list)], PageLimit)

\* C27: the loop of get_messages ends at the first page that comes back empty
\* and not before, an empty page adding nothing; on a quiet channel, however
\* many messages follow the anchor (none, fewer than a page, exactly a page,
\* more), the list returned is in posting order without repetition and holds
\* exactly the messages after the anchor that are not the bot's.
C27_PaginationComplete ==
    /\ [][(cu.pc = "page" /\ cu'.pc \in {"page", "retain"} /\ cu' # cu) =>
            /\ (cu'.pc = "retain") = (ThePage = <<>>)
            /\ Len(cu'.list) = Len(cu.list) + Len(ThePage)
            /\ Len(ThePage) <= PageLimit]_vars
    /\ [](QuietRun =>
            /\ \A k, l \in 1..Len(cu.first) : k < l => cu.first[k] < cu.first[l]
            /\ {cu.first[k] : k \in 1..Len(cu.first)} =
                   {i \in AfterAnchor : msgs[i].author # Bot})

\* A quiet run over a channel that held exactly one page of messages after the
\* anchor, the bot's own among them.
C27_Witness ==
    /\ QuietRun
    /\ Cardinality(AfterAnchor) = PageLimit
    /\ Len(cu.first) = PageLimit - 1

\* ======================================= the meme workflow: deleted messages
\* A deleted message is in no channel any more: it is not listed by
\* channel.messages, and channel.message(id) returns an error for it.
Deleted(m) == [m EXCEPT !.chan = 0]

\* A member or a moderator deletes a message of the channel, the anchor or an
\* entry; here while the memes task sleeps.
MsgDelete ==
    /\ pc \in {"ping_sleep", "reset_sleep", "retry_sleep"}
    /\ \E i \in 1..Len(msgs) :
         /\ msgs[i].chan # 0
         /\ msgs' = [msgs EXCEPT ![i] = Deleted(@)]
    /\ UNCHANGED <<now, inbox, memes, disk, wlock, rlock, mh, cmd, pc, loc, cycle, evals,
                   notMemes>>

\* The contest is configured and has one entry; nobody posts, reacts by hand
\* or gives a command.
DeletedInit ==
    /\ now = 0
    /\ \E ch \in Channels :
         /\ msgs = <<BotMsg(ch), [chan |-> ch, author |-> "u1", bot |-> FALSE]>>
         /\ memes = Some(Memes_new(ch, 1, 0))
    /\ disk = memes
    /\ inbox = {} /\ wlock = "free" /\ rlock = {} /\ mh = None /\ cmd = CmdIdle
    /\ pc = "iter_start" /\ loc = LocInit /\ cycle = 0
    /\ evals = [NoEvals EXCEPT !.elig = {2}]
    /\ SupIdle /\ vs = VsIdle /\ cu = CuIdle /\ LotIdle

DeletedNext == MemesTask \/ Tick \/ MsgDelete

SpecDeleted == DeletedInit /\ [][DeletedNext]_vars

\* C28: a message that cannot be fetched does not stop the Reset: whenever
\* process_memes is about to fetch the list, the fetch can succeed and hand
\* the list to the rest of the Reset, also when the anchor was deleted.
C28_UnfetchableDiscarded ==
    (pc = "pm_gm_fetch" /\ ~AnchorFetchable(msgs, loc.gm_chan, loc.gm_anchor))
        => ENABLED (PmGmFetch /\ pc' = "pm_lock")

\* ============================================ the nickname lottery: waiting
\* what an action of the lottery leaves alone
notLot == <<memesVars, supVars, vs, cu>>

\* The intervals `refresh_interval set` is given: both options accept any
\* integer from 1_800 up, in either order.
LongMax == 2 * YearLen
Overrides ==
    {<<DefaultMin, DefaultMin>>, <<DefaultMin + 1, DefaultMin + 3>>,
     <<DefaultMin, LongMax>>, <<DefaultMax, DefaultMin>>}

\* `refresh_interval set`: under the write guard, set and save.
SetRefreshInterval ==
    /\ ~lot.guard
    /\ \E i \in Overrides : nld' = set_refresh_interval(nld, Some(i))
    /\ UNCHANGED <<lot, members, reg, ncmd, notLot>>

\* `refresh_interval reset`
ResetRefreshInterval ==
    /\ ~lot.guard
    /\ nld' = set_refresh_interval(nld, None)
    /\ UNCHANGED <<lot, members, reg, ncmd, notLot>>

\* After the interval is read: now and is_april_fools are taken; a build
\* without debug assertions samples and sleeps, one with them goes straight to
\* the draw.
AfterRead(l) ==
    IF l.debug THEN [l EXCEPT !.pc = "pick", !.is_april_fools = is_april_fools(l.now)]
    ELSE [l EXCEPT !.pc = "sample"]

\* Top of the loop: under a read guard the guild's interval (or the default) is
\* read; when it differs from the one in use, the distribution is rebuilt.
LotRead ==
    /\ lot.pc = "top"
    /\ LET i == IF IsSome(refresh_interval(nld)) THEN Unwrap(refresh_interval(nld))
                ELSE DEFAULT_REFRESH_INTERVAL IN
       IF lot.interval # i
       THEN LET b == Uniform_from(i[1], i[2]) IN
            IF IsSome(b)
            THEN lot' = AfterRead([lot EXCEPT !.interval = i, !.between = Unwrap(b)])
            ELSE lot' = [lot EXCEPT !.pc = "panicked", !.interval = i]
       ELSE lot' = AfterRead(lot)
    /\ UNCHANGED <<nld, members, reg, ncmd, notLot>>

\* now = Utc::now(); the duration is sampled and adjusted; the sleep begins.
LotSample ==
    /\ lot.pc = "sample"
    /\ \E s \in sample(lot.between) :
         LET r == time_to_sleep(lot.now, s) IN
         IF IsSome(r)
         THEN lot' = [lot EXCEPT !.pc = "sleep", !.sample = s, !.tts = Unwrap(r),
                                 !.is_april_fools = is_april_fools(lot.now)]
         ELSE lot' = [lot EXCEPT !.pc = "panicked"]
    /\ UNCHANGED <<nld, members, reg, ncmd, notLot>>

\* tokio::time::sleep(tts) ends.  Years are alike: the clock is kept within
\* one year.
LotWake ==
    /\ lot.pc = "sleep"
    /\ lot' = [lot EXCEPT !.pc = "pick", !.now = (lot.now + lot.tts) % YearLen,
                          !.sample = 0, !.tts = 0]
    /\ UNCHANGED <<nld, members, reg, ncmd, notLot>>

\* Time to update a user's nickname: a read guard is taken (held to the end of
\* the iteration) and get_random_user called.  With no user the iteration ends.
LotPick ==
    /\ lot.pc = "pick"
    /\ \E r \in get_random_user(nld) :
         IF IsSome(r)
         THEN lot' = [lot EXCEPT !.pc = "member", !.guard = TRUE, !.user = r,
                                 !.same = FALSE, !.n_edits = 0, !.posts = 0, !.notes = 0]
         ELSE lot' = [LoopEnd(lot) EXCEPT !.same = FALSE, !.n_edits = 0, !.posts = 0,
                                          !.notes = 0]
    /\ UNCHANGED <<nld, members, reg, ncmd, notLot>>

\* The lottery task of a guild without registered nicknames has been spawned,
\* at any moment of the year, the guild's interval being the default or an
\* override.
WaitInit ==
    /\ MemesIdle /\ SupIdle /\ vs = VsIdle /\ cu = CuIdle
    /\ \E i \in {None} \cup {Some(o) : o \in Overrides} :
         nld = set_refresh_interval(NicknameLotteryGuildData_default, i)
    /\ \E t \in 0..(YearLen - 1) : lot = [LotNew EXCEPT !.now = t]
    /\ members = [u \in Users |-> None]
    /\ reg = RegNone
    /\ ncmd = {}

WaitNext ==
    \/ SetRefreshInterval \/ ResetRefreshInterval
    \/ LotRead \/ LotSample \/ LotWake \/ LotPick

SpecWait == WaitInit /\ [][WaitNext]_vars

\* The interval in force for this iteration, as the task read it.
ActiveInterval == lot.interval
\* The start of the first April Fool's day after the clock reading t.
NextOverrideStart(t) ==
    LET a == with_ymd_and_hms(year(t), April, 1) IN
    IF t < a THEN a ELSE with_ymd_and_hms(year(t) + 1, April, 1)

\* C13: for an active interval with min <= max (min = max included) the task
\* computes a wait, and on a date other than April Fool's that wait lies
\* within [min, max].
C13_WaitWithinInterval ==
    ActiveInterval[1] <= ActiveInterval[2] =>
      /\ lot.pc # "panicked"
      /\ (lot.pc = "sleep" /\ ~lot.is_april_fools) =>
            (ActiveInterval[1] <= lot.tts /\ lot.tts <= ActiveInterval[2])

\* C14 as stated: on April Fool's the wait is the minimum of the active
\* interval, the guild's own minimum when it has set one.
C14_ForcedToActiveMin ==
    (lot.pc = "sleep" /\ lot.is_april_fools) => lot.tts = ActiveInterval[1]

\* C14: on April Fool's the wait is the fixed 1_800 seconds, the minimum of the
\* default interval, whatever was sampled and whatever interval the guild set.
C14_ForcedToDefaultMin ==
    (lot.pc = "sleep" /\ lot.is_april_fools) => lot.tts = DEFAULT_REFRESH_INTERVAL[1]

\* The task sleeps on April Fool's under a guild interval whose minimum is
\* above the default one, having sampled more than it sleeps.
C14_Witness ==
    /\ lot.pc = "sleep" /\ lot.is_april_fools
    /\ ActiveInterval[1] > DEFAULT_REFRESH_INTERVAL[1]
    /\ lot.sample > lot.tts
    /\ lot.tts = DEFAULT_REFRESH_INTERVAL[1]

\* C15: on a date other than April Fool's, a sample that reaches or passes the
\* start of the next April Fool's day is cut to end at that start; any other
\* sample is the wait.
C15_ClampedToOverrideStart ==
    (lot.pc = "sleep" /\ ~lot.is_april_fools) =>
      lot.tts = IF lot.now + lot.sample >= NextOverrideStart(lot.now)
                THEN NextOverrideStart(lot.now) - lot.now
                ELSE lot.sample

\* C29: every step that stores a refresh interval stores one whose minimum is
\* at or below its maximum.
C29_OverrideOrdered ==
    [][(refresh_interval(nld') # refresh_interval(nld) /\ IsSome(refresh_interval(nld'))) =>
         Unwrap(refresh_interval(nld'))[1] <= Unwrap(refresh_interval(nld'))[2]]_vars

\* The interval the guild has configured: its override, or the default.
Configured ==
    IF nld.refresh_interval = None THEN DEFAULT_REFRESH_INTERVAL
    ELSE nld.refresh_interval[1]

\* C33: while the task sleeps nothing changes the wait it computed, and the
\* sleep ends after exactly that wait, whatever `refresh_interval set` or
\* `reset` did meanwhile; the iteration that follows reads the interval as it
\* is configured then, and the value it samples is taken from that interval.
C33_ChangeTakesEffectNextWake ==
    /\ [][(lot.pc = "sleep" /\ lot'.pc = "sleep") => lot' = lot]_vars
    /\ [][(lot.pc = "sleep" /\ lot'.pc # "sleep") =>
            (lot'.pc = "pick" /\ lot'.now = (lot.now + lot.tts) % YearLen)]_vars
    /\ [][(lot.pc = "top" /\ lot'.pc # "top") =>
            /\ lot'.interval = Configured
            /\ lot'.pc = "sample" => lot'.between = Configured]_vars
    /\ [][(lot.pc = "sample" /\ lot'.pc = "sleep") =>
            (lot'.sample >= lot.interval[1] /\ lot'.sample < lot.interval[2])]_vars

\* The task sleeps a wait sampled from the default interval while an override
\* has been set.
C33_Witness ==
    /\ lot.pc = "sleep"
    /\ lot.interval = DEFAULT_REFRESH_INTERVAL
    /\ nld.refresh_interval # None
    /\ Configured # lot.interval
    /\ lot.tts = lot.sample

\* ================================== the nickname lottery: the nickname lists
\* The texts the commands are given.
Nicks == {<<"a">>, <<"b">>}

PendingAdds(user) == Cardinality({c \in ncmd : c.op = "add" /\ c.user = user})

\* `user_nicknames add`, first part: under a read guard, a text the user
\* already has is refused; otherwise the command goes on.
NickAddCheck ==
    /\ Cardinality(ncmd) < MaxCmds
    /\ \E u \in Users, text \in Nicks :
         /\ Len(reg.entries[u]) + PendingAdds(u) < MaxNicks
         /\ ~(/\ IsSome(user_nicknames(nld, u))
              /\ \E i \in 1..Len(Unwrap(user_nicknames(nld, u))) :
                    nickname(Unwrap(user_nicknames(nld, u))[i]) = text)
         /\ ncmd' = ncmd \cup {[op |-> "add", user |-> u, text |-> text, n |-> 0]}
    /\ UNCHANGED <<nld, lot, members, reg, notLot>>

\* acquire_data_handle!(write ctx) of a command is granted while the lottery
\* task holds no read guard.  The second form grants it at any time.
write_granted_always(l) == TRUE
write_granted(l) == ~l.guard

\* second part: under the write guard, add_user_nickname and save.
NickAddApply ==
    /\ write_granted(lot)
    /\ \E c \in ncmd :
         /\ c.op = "add"
         /\ nld' = add_user_nickname(nld, c.user, NicknameData(c.text))
         /\ reg' = [reg EXCEPT !.entries[c.user] = Append(@, c.text)]
         /\ ncmd' = ncmd \ {c}
    /\ UNCHANGED <<lot, members, notLot>>

\* `user_nicknames remove`, first part: number < 1 is refused; under a read
\* guard, a number beyond the user's list (or a user without one) is refused,
\* and otherwise the entry with that number is copied for the reply.
NickRemoveCheck ==
    /\ Cardinality(ncmd) < MaxCmds
    /\ \E u \in Users, n \in 1..MaxNicks :
         /\ IsSome(user_nicknames(nld, u))
         /\ n <= Len(Unwrap(user_nicknames(nld, u)))
         /\ ncmd' = ncmd \cup {[op |-> "remove", user |-> u,
                                 text |-> nickname(Unwrap(user_nicknames(nld, u))[n]),
                                 n |-> n]}
    /\ UNCHANGED <<nld, lot, members, reg, notLot>>

\* second part: under the write guard, remove_user_nickname and save.  When an
\* assert! of remove_user_nickname fails the handler panics and nothing is
\* changed.
NickRemoveApply ==
    /\ write_granted(lot)
    /\ \E c \in ncmd :
         /\ c.op = "remove"
         /\ LET r == remove_user_nickname(nld, c.user, c.n) IN
            IF IsSome(r)
            THEN /\ nld' = Unwrap(r)
                 /\ reg' = IF c.n <= Len(reg.entries[c.user])
                           THEN [reg EXCEPT
                                   !.entries[c.user] = RemoveAt(@, c.n),
                                   !.emptied[c.user] = @ \/ Len(reg.entries[c.user]) = 1]
                           ELSE reg
            ELSE UNCHANGED <<nld, reg>>
         /\ ncmd' = ncmd \ {c}
    /\ UNCHANGED <<lot, members, notLot>>

\* A guild whose lottery data is the default: no user has a nickname.
NickInit ==
    /\ MemesIdle /\ SupIdle /\ vs = VsIdle /\ cu = CuIdle /\ LotIdle

NickNext == NickAddCheck \/ NickAddApply \/ NickRemoveCheck \/ NickRemoveApply

SpecNicknames == NickInit /\ [][NickNext]_vars

HasEntries(u) == reg.entries[u] # <<>>
Changed(u) == reg.entries[u]' # reg.entries[u]

\* A remove command does its second part in this step.
Removes(c) == c \in ncmd /\ c.op = "remove" /\ c \notin ncmd'

\* C38: a removal by number is atomic with its check: when a remove command
\* comes to its second part, no assert! of remove_user_nickname fails and the
\* entry with its number is still the one it copied for its reply.
C38_RemoveAtomic ==
    [][\A c \in ncmd : Removes(c) =>
          /\ IsSome(remove_user_nickname(nld, c.user, c.n))
          /\ IsSome(user_nicknames(nld, c.user))
          /\ nickname(Unwrap(user_nicknames(nld, c.user))[c.n]) = c.text]_vars

\* C18: after any additions and removals, get_nickname_for_user(u) is None
\* exactly when u has no entry left and otherwise one of the texts u has; an
\* addition or removal for one user leaves the result for every other user
\* as it was.
C18_NicknameOfUser ==
    /\ [](\A u \in Users :
            get_nickname_for_user(nld, u) =
              IF HasEntries(u)
              THEN {Some(reg.entries[u][i]) : i \in 1..Len(reg.entries[u])}
              ELSE {None})
    /\ [][\A u \in Users : Changed(u) =>
            \A v \in Users \ {u} :
               get_nickname_for_user(nld', v) = get_nickname_for_user(nld, v)]_vars

\* One user has two different texts to draw from while the other, whose
\* only entry was removed, has none.
C18_Witness ==
    \E u \in Users, v \in Users :
       /\ u # v
       /\ Cardinality(get_nickname_for_user(nld, u)) = 2
       /\ reg.emptied[v] /\ ~HasEntries(v)
       /\ get_nickname_for_user(nld, v) = {None}

\* C19: after any additions and removals no key of the map has an empty
\* list (a user whose last entry is removed loses the key), and
\* get_random_user is None exactly when no user has an entry and otherwise
\* a user that has one.
C19_NoEmptyList ==
    /\ \A u \in Users :
          IsSome(user_nicknames(nld, u)) => Unwrap(user_nicknames(nld, u)) # <<>>
    /\ get_random_user(nld) =
          IF \A u \in Users : ~HasEntries(u) THEN {None}
          ELSE {Some(u) : u \in {w \in Users : HasEntries(w)}}

\* A user's last entry has been removed while the other user keeps one:
\* only the other user can be drawn.
C19_Witness ==
    \E u \in Users, v \in Users :
       /\ u # v
       /\ reg.emptied[u] /\ ~HasEntries(u)
       /\ ~IsSome(user_nicknames(nld, u))
       /\ get_random_user(nld) = {Some(v)}

\* ======================================== the nickname lottery: the draw
\* The wait of the iteration (LotRead, LotSample, LotWake) taken as one step:
\* of what it computes, the draw uses is_april_fools alone.
LotSleep ==
    /\ lot.pc = "top"
    /\ \E a \in BOOLEAN : lot' = [lot EXCEPT !.pc = "pick", !.is_april_fools = a]
    /\ UNCHANGED <<nld, members, reg, ncmd, notLot>>

\* g.member(..) returns.  Err: the iteration ends.  Ok: a nickname is chosen
\* for the user, the prefix kept, and the name compared with the member's
\* display name; unless it is the same, edit_member is called.
LotMember ==
    /\ lot.pc = "member"
    /\ LET u == Unwrap(lot.user) IN
       \/ lot' = LoopEnd(lot)
       \/ /\ IsSome(members[u])
          /\ \E r \in get_nickname_for_user(nld, u) :
               IF ~IsSome(r) THEN lot' = LoopEnd(lot)
               ELSE LET old_nick == Unwrap(members[u])
                        new_nick == with_streaming_prefix(lot.stream_indicator, old_nick,
                                                          Unwrap(r)) IN
                    IF skips_nickname_change(old_nick, new_nick)
                    THEN lot' = [EndIter(lot) EXCEPT !.same = (old_nick = new_nick)]
                    ELSE lot' = [lot EXCEPT !.pc = "edit", !.old_nick = old_nick,
                                            !.new_nick = new_nick,
                                            !.post_name_change = lot.is_april_fools,
                                            !.same = (old_nick = new_nick),
                                            !.n_edits = @ + 1]
    /\ UNCHANGED <<nld, members, reg, ncmd, notLot>>

\* After edit_member: with post_name_change and a channel set the announcement
\* follows, otherwise the iteration ends.
AfterEdit(l) ==
    IF l.post_name_change /\ IsSome(channel(nld)) THEN [l EXCEPT !.pc = "channel"]
    ELSE LoopEnd(l)

\* edit_member(..) returns: the nickname is changed, or the call failed and
\* post_name_change is set.
LotEdit ==
    /\ lot.pc = "edit"
    /\ LET u == Unwrap(lot.user) IN
       \/ /\ IsSome(members[u])
          /\ members' = [members EXCEPT ![u] = Some(lot.new_nick)]
          /\ lot' = AfterEdit(lot)
       \/ /\ UNCHANGED members
          /\ lot' = AfterEdit([lot EXCEPT !.post_name_change = TRUE])
    /\ UNCHANGED <<nld, reg, ncmd, notLot>>

\* channel_id.to_channel(..) returns: a guild channel, or none (subscribers are
\* notified, `continue`).  lot.notes counts the calls of
\* notify_subscribers_with_handle (feature "events" compiled in).
LotChannel ==
    /\ lot.pc = "channel"
    /\ \/ lot' = [lot EXCEPT !.pc = "send"]
       \/ lot' = [EndIter(lot) EXCEPT !.notes = @ + 1]
    /\ UNCHANGED <<nld, members, reg, ncmd, notLot>>

\* send_message(..).await.unwrap(): the announcement is posted, or the task
\* panics.
LotSend ==
    /\ lot.pc = "send"
    /\ \/ lot' = [LoopEnd(lot) EXCEPT !.posts = @ + 1]
       \/ lot' = [EndIter(lot) EXCEPT !.pc = "panicked"]
    /\ UNCHANGED <<nld, members, reg, ncmd, notLot>>

\* A member's display name changes (by the member, a moderator, or the stream
\* indicator), or the member leaves or joins.
DisplayNames == {<<"a">>, STREAMING_PREFIX \o <<"a">>}
MemberChange ==
    /\ \E u \in Users, v \in {None} \cup {Some(n) : n \in DisplayNames} :
         /\ v # members[u]
         /\ members' = [members EXCEPT ![u] = v]
    /\ UNCHANGED <<nld, lot, reg, ncmd, notLot>>

\* Two users are registered: "u1" was given two nicknames and "u2" one.
TwoRegistered ==
    add_user_nickname(
        add_user_nickname(
            add_user_nickname(NicknameLotteryGuildData_default, "u1", NicknameData(<<"a">>)),
            "u1", NicknameData(<<"b">>)),
        "u2", NicknameData(<<"a">>))

\* The lottery task of a guild has been spawned; two users are registered,
\* with or without an announcement channel; the stream-indicator feature is
\* compiled in or not.  While the lottery runs nicknames are removed.
LotteryInit ==
    /\ MemesIdle /\ SupIdle /\ vs = VsIdle /\ cu = CuIdle
    /\ \E ch \in {None, Some(1)} : nld = [TwoRegistered EXCEPT !.channel = ch]
    /\ \E f \in BOOLEAN : lot = [LotNew EXCEPT !.stream_indicator = f]
    /\ members = [u \in Users |-> Some(<<"a">>)]
    /\ reg = [RegNone EXCEPT !.entries = [u \in Users |->
                 IF u = "u1" THEN <<(<<"a">>), (<<"b">>)>> ELSE <<(<<"a">>)>>]]
    /\ ncmd = {}

LotteryNext ==
    \/ LotSleep \/ LotPick \/ LotMember \/ LotEdit \/ LotChannel \/ LotSend
    \/ MemberChange \/ NickRemoveCheck \/ NickRemoveApply

SpecLottery == LotteryInit /\ [][LotteryNext]_vars

\* The names the user's entries allow: a text of the user, with or without
\* the streaming prefix.
NamesOf(u) ==
    UNION {{reg.entries[u][i], STREAMING_PREFIX \o reg.entries[u][i]} :
             i \in 1..Len(reg.entries[u])}

\* C16: from the comparison of a draw whose new name is the member's display
\* name until the next draw, no edit call is made or in progress and no
\* announcement is made or in preparation.
C16_SameNameNoEdit ==
    lot.same =>
      /\ lot.pc \in {"top", "pick"}
      /\ lot.n_edits = 0
      /\ lot.posts = 0

\* A draw has found the name it computed to be the member's display name and
\* ended; the guild has an announcement channel, the streaming prefix is
\* kept, and a member bears an entry of theirs with the prefix.
C16_Witness ==
    /\ lot.same /\ lot.pc = "top"
    /\ IsSome(channel(nld)) /\ lot.stream_indicator
    /\ \E u \in Users :
         /\ IsSome(members[u])
         /\ starts_with(Unwrap(members[u]), STREAMING_PREFIX)
         /\ Unwrap(members[u]) \in NamesOf(u)

\* C17: one wake makes at most one edit call; the call is for a user with an
\* entry and gives a name its entries allow; a step of the lottery changes
\* no member's name but that user's, to that name.
C17_OneEditOfDrawnUser ==
    /\ [](/\ lot.n_edits <= 1
          /\ lot.pc = "edit" =>
                /\ lot.n_edits = 1
                /\ IsSome(lot.user)
                /\ HasEntries(Unwrap(lot.user))
                /\ lot.new_nick \in NamesOf(Unwrap(lot.user)))
    /\ [][lot' # lot =>
            \A v \in Users : members'[v] # members[v] =>
               /\ lot.pc = "edit"
               /\ v = Unwrap(lot.user)
               /\ members'[v] = Some(lot.new_nick)]_vars

\* An edit call is in progress for one user, with a prefixed name, while the
\* other user has entries too and a different display name.
C17_Witness ==
    /\ lot.pc = "edit"
    /\ starts_with(lot.new_nick, STREAMING_PREFIX)
    /\ \E v \in Users \ {Unwrap(lot.user)} :
         /\ HasEntries(v)
         /\ IsSome(members[v])
         /\ members[v] # Some(lot.new_nick)

\* C31: a draw that has to announce (post_name_change is set when edit_member
\* returns) either goes on to its announcement channel or passes the matter to
\* notify_subscribers; and from the channel look-up it goes to the send or
\* notifies.  It never ends with neither.
C31_AnnouncedOrEscalated ==
    /\ [][(lot.pc = "edit" /\ lot.post_name_change /\ lot'.pc # "edit") =>
            (lot'.pc = "channel" \/ lot'.notes > lot.notes)]_vars
    /\ [][(lot.pc = "channel" /\ lot'.pc # "channel") =>
            (lot'.pc = "send" \/ lot'.notes > lot.notes)]_vars

\* ============================= the nickname lottery: the wait and the draw
\* The lottery task of a guild with two registered users and an announcement
\* channel has been spawned at any moment of the year; the interval is the
\* default.  Every iteration is the whole loop body: the wait, then the draw.
\* Nobody else changes a display name, so an edit that succeeds changes one.
YearInit ==
    /\ MemesIdle /\ SupIdle /\ vs = VsIdle /\ cu = CuIdle
    /\ nld = [TwoRegistered EXCEPT !.channel = Some(1)]
    /\ \E t \in 0..(YearLen - 1) : lot = [LotNew EXCEPT !.now = t]
    /\ members = [u \in Users |-> Some(<<"a">>)]
    /\ reg = [RegNone EXCEPT !.entries = [u \in Users |->
                 IF u = "u1" THEN <<(<<"a">>), (<<"b">>)>> ELSE <<(<<"a">>)>>]]
    /\ ncmd = {}

YearNext ==
    \/ LotRead \/ LotSample \/ LotWake \/ LotPick \/ LotMember \/ LotEdit
    \/ LotChannel \/ LotSend

SpecYear == YearInit /\ [][YearNext]_vars

\* edit_member has returned: the step that leaves "edit".
EditReturns == lot.pc = "edit" /\ lot'.pc # "edit"
EditFailed == EditReturns /\ members' = members

\* C30: when edit_member has returned, the draw goes on to the announcement
\* exactly if the edit failed or the draw takes place on April Fool's day
\* (lot.now is the clock at the wake that started the draw).
C30_AnnouncedOnFailureOrOnTheDay ==
    [][EditReturns =>
         ((lot'.pc = "channel") = (EditFailed \/ is_april_fools(lot.now)))]_vars

\* ================================ the nickname lottery: a debug build
\* The lottery task of a build with debug assertions has been spawned, on an
\* ordinary day or on April Fool's day; two users are registered, with or
\* without an announcement channel.  Display names change meanwhile.
DebugInit ==
    /\ MemesIdle /\ SupIdle /\ vs = VsIdle /\ cu = CuIdle
    /\ \E ch \in {None, Some(1)} : nld = [TwoRegistered EXCEPT !.channel = ch]
    /\ \E f \in BOOLEAN, t \in {0, (April - 1) * MonthLen} :
         lot = [LotNew EXCEPT !.stream_indicator = f, !.now = t, !.debug = TRUE]
    /\ members = [u \in Users |-> Some(<<"a">>)]
    /\ reg = [RegNone EXCEPT !.entries = [u \in Users |->
                 IF u = "u1" THEN <<(<<"a">>), (<<"b">>)>> ELSE <<(<<"a">>)>>]]
    /\ ncmd = {}

DebugNext ==
    \/ LotRead \/ LotPick \/ LotMember \/ LotEdit \/ LotChannel \/ LotSend
    \/ MemberChange

SpecDebug == DebugInit /\ [][DebugNext]_vars

\* C32: in a debug build the task makes one draw and stops: once it has left
\* the top of the loop it does not come back to it, and it never sleeps.
C32_DebugRunsOnce ==
    /\ [][(lot.debug /\ lot.pc # "top") => lot'.pc # "top"]_vars
    /\ [](lot.debug => lot.pc \notin {"sample", "sleep"})


\* ===================================== the two workflows of a guild: sleeps
\* Both tasks of a guild run: the contest is configured, with one entry or with
\* none, the lottery has two registered users and an announcement channel.  Nobody posts
\* or gives a command; what is looked at is where each task sleeps.
SleepsInit ==
    /\ now = 0
    /\ \E ch \in Channels :
         /\ \/ /\ msgs = <<BotMsg(ch), [chan |-> ch, author |-> "u1", bot |-> FALSE]>>
               /\ evals = [NoEvals EXCEPT !.elig = {2}]
            \/ /\ msgs = <<BotMsg(ch)>>
               /\ evals = NoEvals
         /\ memes = Some(Memes_new(ch, 1, 0))
    /\ disk = memes
    /\ inbox = {} /\ wlock = "free" /\ rlock = {} /\ mh = None /\ cmd = CmdIdle
    /\ pc = "iter_start" /\ loc = LocInit /\ cycle = 0
    /\ SupIdle /\ vs = VsIdle /\ cu = CuIdle
    /\ nld = [TwoRegistered EXCEPT !.channel = Some(1)]
    /\ lot = LotNew
    /\ members = [u \in Users |-> Some(<<"a">>)]
    /\ reg = [RegNone EXCEPT !.entries = [u \in Users |->
                 IF u = "u1" THEN <<(<<"a">>), (<<"b">>)>> ELSE <<(<<"a">>)>>]]
    /\ ncmd = {}

SleepsNext == MemesTask \/ Tick \/ YearNext

SpecSleeps == SleepsInit /\ [][SleepsNext]_vars

\* The memes task is in one of its sleeps: the ping sleep, the reset sleep, the
\* 5-minute sleep of guild_init, the 5-minute sleep of the edit loop.
MemesAsleep == pc \in {"ping_sleep", "reset_sleep", "retry_sleep", "pm_edit_sleep"}

\* C34: no workflow task sleeps while it holds a guard of the store: while the
\* memes task is in its ping sleep, its reset sleep or one of its 5-minute
\* retry sleeps it holds neither the write guard nor a read guard, and while
\* the lottery task is in its interval sleep it holds no read guard.
C34_NoSleepUnderGuard ==
    /\ MemesAsleep => (wlock # "memes" /\ "memes" \notin rlock)
    /\ lot.pc = "sleep" => ~lot.guard

\* The memes task sleeps in the edit loop, which it reaches only through the
\* write guards of the Reset, and the lottery task sleeps again after a draw
\* made under its read guard.
C34_Witness ==
    /\ pc = "pm_edit_sleep"
    /\ lot.pc = "sleep" /\ (\E u \in Users : members[u] # Some(<<"a">>))


\* ========================================= the supervisor: save and restart
\* Some handler or task calls Config::save under the write guard: the whole
\* configuration, every guild's record included, is written to the file.
ConfigSave ==
    /\ CanWrite
    /\ stored' = save(started, stored)
    /\ UNCHANGED <<started, features, gc, tasks, waiters, others, memesVars, vs, cu, lotVars>>

\* The process ends and is started again: its handlers and tasks are gone, and
\* Config::load reads the file.
Restart ==
    /\ started' = load(stored)
    /\ gc' = <<>>
    /\ tasks' = [t \in Guilds \X Kinds |-> 0]
    /\ UNCHANGED <<stored, features, waiters, others, memesVars, vs, cu, lotVars>>

RestartNext == SupNext \/ ConfigSave \/ Restart

SpecRestart == SupInit /\ [][RestartNext]_vars

\* C35 as stated: the flag set by guild_create is part of what save writes:
\* a save made while the flag of a guild is set leaves it set in the file.
C35_FlagPersisted ==
    [][ConfigSave => \A g \in Guilds : started[g] => stored'[g] = "true"]_vars

\* C35, amended: the flag is set in the guild's record in memory as soon as a
\* guild_create handler has seen the guild, but save never writes it, and
\* after a restart it is unset for every guild.
C35_FlagInMemoryOnly ==
    /\ [](\A g \in Guilds : Passed(g) # {} => started[g])
    /\ [](\A g \in Guilds : stored[g] \in {"none", "absent"})
    /\ [][Restart => \A g \in Guilds : ~started'[g]]_vars

\* A guild was seen and its record saved; the process was then restarted, and
\* the flag is unset although the file has the guild's record.
C35_Witness == \E g \in Guilds : stored[g] = "absent" /\ ~started[g]


\* ================================================ the data lock: requests
\* ctx.data is a tokio RwLock: requests are served in the order they were
\* made, so a read request made while a write request waits queues behind it.
\* The holders are wlock and rlock as before; a guard taken inside
\* notify_subscribers is named after its caller.
NotifyGuard ==
    [t \in LockUsers |->
        CASE t = "scoreboard" -> "scoreboard.notify"
          [] t = "text_response" -> "text_response.notify"
          [] t = "command" -> "command.notify"
          [] OTHER -> "stream_indicator.notify"]

Holds(t) == wlock = t \/ t \in rlock \/ NotifyGuard[t] \in rlock

notLock == <<now, msgs, inbox, memes, disk, mh, cmd, pc, loc, cycle, evals, started, stored,
             features, gc, tasks, vs, cu, lotVars>>

\* acquire_data_handle!(read ctx) / (write ctx): the request joins the queue.
Request(t, g, kind, to) ==
    /\ waiters' = Append(waiters, [who |-> t, guard |-> g, kind |-> kind])
    /\ others' = [others EXCEPT ![t] = to]
    /\ UNCHANGED <<wlock, rlock, notLock>>

\* The oldest request is granted once the holders allow it: a write when
\* nobody holds a guard, a read when nobody holds the write guard.
Grant ==
    /\ waiters # <<>>
    /\ LET h == Head(waiters) IN
         /\ IF h.kind = "write"
            THEN wlock = "free" /\ rlock = {} /\ wlock' = h.guard /\ rlock' = rlock
            ELSE wlock = "free" /\ rlock' = rlock \cup {h.guard} /\ wlock' = wlock
         /\ others' = [others EXCEPT ![h.who] =
                          IF @ = "wait_notify" THEN "notifying" ELSE "guarded"]
    /\ waiters' = Tail(waiters)
    /\ UNCHANGED notLock

\* The guards t holds are dropped.
Release(t, to) ==
    /\ wlock' = IF wlock = t THEN "free" ELSE wlock
    /\ rlock' = rlock \ {t, NotifyGuard[t]}
    /\ others' = [others EXCEPT ![t] = to]
    /\ UNCHANGED <<waiters, notLock>>

\* Scoreboards::guild_init: the write guard, set_ephemeral_commands awaited
\* under it; on an error notify_subscribers is called before the guard is
\* dropped, otherwise the configuration is saved and the guard dropped.
ScoreboardAcquire ==
    /\ others["scoreboard"] = "start"
    /\ Request("scoreboard", "scoreboard", "write", "wait_guard")

ScoreboardSetCommands ==
    /\ others["scoreboard"] = "guarded"
    /\ \E ok \in BOOLEAN :
         IF ok THEN Release("scoreboard", "done")
         ELSE /\ others' = [others EXCEPT !["scoreboard"] = "notify"]
              /\ UNCHANGED <<wlock, rlock, waiters, notLock>>

\* TextResponse::message: a read guard for the whole handler; when sending the
\* response fails, notify_subscribers is called under it.
TextResponseAcquire ==
    /\ others["text_response"] = "start"
    /\ Request("text_response", "text_response", "read", "wait_guard")

TextResponseSend ==
    /\ others["text_response"] = "guarded"
    /\ \E ok \in BOOLEAN :
         IF ok THEN Release("text_response", "done")
         ELSE /\ others' = [others EXCEPT !["text_response"] = "notify"]
              /\ UNCHANGED <<wlock, rlock, waiters, notLock>>

\* StreamIndicator's presence handler: the read guard is dropped, and then
\* notify_subscribers is called.
StreamAcquire ==
    /\ others["stream_indicator"] = "start"
    /\ Request("stream_indicator", "stream_indicator", "read", "wait_guard")

StreamPresence ==
    /\ others["stream_indicator"] = "guarded"
    /\ \E notify \in BOOLEAN :
         Release("stream_indicator", IF notify THEN "notify" ELSE "done")

\* A command that changes the configuration (unset_channel, for one): the
\* write guard, the change and the save, the guard dropped.
CommandAcquire ==
    /\ others["command"] = "start"
    /\ Request("command", "command", "write", "wait_guard")

CommandApply ==
    /\ others["command"] = "guarded"
    /\ Release("command", "done")

\* notify_subscribers: a read guard of its own, held while the subscribers are
\* messaged; when it returns, its caller goes on to its end and drops what it
\* holds.
NotifyAcquire ==
    \E t \in LockUsers :
      /\ others[t] = "notify"
      /\ Request(t, NotifyGuard[t], "read", "wait_notify")

NotifyReturn ==
    \E t \in LockUsers :
      /\ others[t] = "notifying"
      /\ Release(t, "done")

LockInit == MemesIdle /\ SupIdle /\ vs = VsIdle /\ cu = CuIdle /\ LotIdle

LockNext ==
    \/ ScoreboardAcquire \/ ScoreboardSetCommands \/ TextResponseAcquire
    \/ TextResponseSend \/ StreamAcquire \/ StreamPresence \/ CommandAcquire
    \/ CommandApply \/ NotifyAcquire \/ NotifyReturn \/ Grant

SpecLock == LockInit /\ [][LockNext]_vars

\* C37: no task requests the lock of the store while it holds a guard on it:
\* nobody who waits in the queue of the lock holds a read or write guard.
C37_NoRequestUnderGuard ==
    \A i \in 1..Len(waiters) : ~Holds(waiters[i].who)


\* ===================== the meme workflow: a channel set after the task began
\* The memes task of a guild without a contest has been spawned; the channel
\* is then set, once, while the task sleeps after it found no record, and
\* members post and react.
PickUpInit == MemesIdle /\ SupIdle /\ vs = VsIdle /\ cu = CuIdle /\ LotIdle

FirstSetChannel ==
    /\ ~IsSome(memes)
    /\ pc = "retry_sleep"
    /\ SetChannelSend

PickUpNext ==
    \/ MemesTask \/ Tick \/ MsgPost \/ MessageNoReact \/ MessageReactCall
    \/ MessageReactDone \/ FirstSetChannel \/ SetChannelApply

SpecPickUp == PickUpInit /\ [][PickUpNext]_vars

\* The Reset of the record is due: cycle_start + 7 days has passed.
Due == IsSome(memes) /\ next_reset(Unwrap(memes)) <= now

\* The record is picked up at the next turn of guild_init's loop: the retry
\* sleep is followed by memes_process_iter, and memes_process_iter with a
\* record takes its next_reset and goes on to the sleeps or to the Reset.
PickedUpNextTurn ==
    /\ [][(pc = "retry_sleep" /\ pc' # pc) => pc' = "iter_start"]_vars
    /\ [][(pc = "iter_start" /\ IsSome(memes) /\ pc' # pc) =>
            /\ pc' \in {"ping_sleep", "reset_sleep", "pm_gm_read"}
            /\ pc' # "pm_gm_read" => loc'.reset_time = next_reset(Unwrap(memes))]_vars

\* C39: a channel set after the memes task began leads to a Reset once its
\* cycle has run out: whenever the Reset of the record is due, the task is
\* alive to do it.
C39_DueResetHasATask == Due => pc # "panicked"


\* ==================== the nickname lottery: the draw and the remove command
\* The name edit_member is called with was made from the text t.
MadeFrom(t) == lot.new_nick = with_streaming_prefix(lot.stream_indicator, lot.old_nick, t)

\* C40: the nickname a draw applies is registered when it is applied: while
\* edit_member is awaited, the name it was given was made from an entry the
\* chosen user has in the store.
C40_AppliedIsRegistered ==
    lot.pc = "edit" =>
        \E r \in get_nickname_for_user(nld, Unwrap(lot.user)) :
            IsSome(r) /\ MadeFrom(Unwrap(r))

\* edit_member is awaited while a remove command that has checked and copied
\* the very entry of the draw waits for the write guard.
C40_Witness ==
    /\ lot.pc = "edit"
    /\ \E c \in ncmd :
         c.op = "remove" /\ c.user = Unwrap(lot.user) /\ MadeFrom(c.text)
====
